---- MODULE Spec2Model ----
(***************************************************************************)
(* Model of the anomaly detector (package anomaly), the cluster registry   *)
(* (package cluster) and the multi-cluster orchestration (package agent    *)
(* and the command's main loop).                                           *)
(*                                                                         *)
(* Numbers.  The Go code works on float64.  The model works on exact       *)
(* rationals: a mean or an EWMA is a pair <<num, den>> (den > 0), and a    *)
(* standard deviation is carried as its square, the variance, again a      *)
(* pair <<num, den>>.  Every comparison the code makes on floats is made   *)
(* here on the exact values after clearing denominators (and squaring      *)
(* where a square root is involved).  Metric values are small integers.    *)
(***************************************************************************)
EXTENDS Integers, Sequences, FiniteSets, TLC

VARIABLES
    \* ---- one Detector (anomaly.Detector) ----
    history,          \* d.history: sequence of MetricObservation
    maxHistorySize,   \* d.maxHistorySize
    panicked,         \* a call on the detector has ended in a run-time panic
    recorded,         \* every observation ever passed to recordObservation, in call order
    preHistory,       \* d.history when the last DetectAnomalies call started
    lastState,        \* the ClusterState given to the last DetectAnomalies call
    lastAnomalies,    \* what that call returned
    calls,            \* number of DetectAnomalies / recordObservation calls made
    \* ---- one call of isAnomalyHistory ----
    clsIn,            \* its arguments
    clsOut,           \* its result
    clsPc,            \* "ready" before the call, "done" after
    \* ---- the multi-cluster agent and the main loop ----
    clusters,         \* Manager.clusters: cluster id -> ClusterAgent record
    agents,           \* the ids of MultiClusterAgent.agents
    agentState,       \* per agent: a.state
    agentHistory,     \* per detector of an agent: d.history
    observations,     \* per agent: a.observations
    mainPc,           \* where the main loop is
    taskPc,           \* per agent: where its goroutine of the current phase is
    errorsChan,       \* ObserveAllClusters: the errors channel
    anomalyChan,      \* DetectAllAnomalies: the anomalyChan channel
    taskAnomalies,    \* per agent: the anomalies its detect goroutine holds
    cycle,            \* number of ticks taken
    phase,            \* per cluster id: what the current cycle did for it
    cycleResult,      \* what the current cycle returned to the main loop
    phaseStart,       \* Manager.clusters when the current Observe phase started
    \* ---- shutdown requests seen by the main loop of main.go ----
    sigPending,       \* a signal is waiting in sigChan
    ctxDone,          \* the agent's context is cancelled
    requestedAt,      \* the cycle and stage in which shutdown was first requested
    \* ---- callers of the registry (cluster.Manager) ----
    regBefore,        \* Manager.clusters before the last write call
    regOp,            \* the last write call: its name, arguments and result
    regClock,         \* number of write calls made (the time they stamp)
    readers,          \* number of holders of m.mu.RLock()
    snapTodo,         \* GetMultiClusterState: the ids its loop has still to visit
    snapOut,          \* GetMultiClusterState: the MultiClusterState being built
    \* ---- the configuration ----
    configFile,       \* the clusters section of the configuration file, as unmarshalled
    config,           \* Config.Clusters, which the manager and the agents are built from
    \* ---- one call of ComputeStats in floating point ----
    statsIn,          \* its arguments: values, alpha
    statsOut,         \* its results: mean, stddev, ewma
    statsPc           \* "ready" before the call, "done" after

detVars == <<history, maxHistorySize, panicked, recorded, preHistory, lastState, lastAnomalies,
             calls>>
clsVars == <<clsIn, clsOut, clsPc>>
orchVars == <<clusters, agents, agentState, agentHistory, observations, mainPc, taskPc,
              errorsChan, anomalyChan, taskAnomalies, cycle, phase, cycleResult, phaseStart>>
ctlVars == <<sigPending, ctxDone, requestedAt>>
regVars == <<regBefore, regOp, regClock, readers, snapTodo, snapOut>>
cfgVars == <<configFile, config>>
statVars == <<statsIn, statsOut, statsPc>>
vars == <<detVars, clsVars, orchVars, ctlVars, regVars, cfgVars, statVars>>

----------------------------------------------------------------------------
(* Bounds of the model *)

\* number of recordObservation calls explored by SpecRecord
MaxRecords == 5
\* largest maxHistorySize explored by SpecRecord
MaxHistRec == 3
\* number of DetectAnomalies calls explored by SpecDetector
MaxCalls == 5

----------------------------------------------------------------------------
(* Detector configuration (config.AnomalyDetectionConfig defaults) *)

cpuThreshold == 80
memoryThreshold == 80
podRestarts == 3
minStdDev == 1
\* the EWMA smoothing factor alpha = AlphaNum / AlphaDen, one value for the
\* three metrics (cpuAlpha, memoryAlpha, restartAlpha of the configuration)
AlphaNum == 1
AlphaDen == 2
alpha == <<AlphaNum, AlphaDen>>

\* minimum history for statistical analysis
NodeMinHistory == 5
PodMinHistory == 3
\* warning events are anomalous above this count
WarningCountLimit == 5

problematicReasons ==
    {"FailedScheduling", "FailedMount", "FailedAttachVolume", "FailedCreate",
     "FailedDelete", "BackOff", "CrashLoopBackOff", "ImagePullBackOff"}

----------------------------------------------------------------------------
(* Arithmetic helpers *)

Abs(x) == IF x < 0 THEN -x ELSE x

RECURSIVE Pow(_, _)
Pow(b, e) == IF e = 0 THEN 1 ELSE b * Pow(b, e - 1)

RECURSIVE SumSeq(_)
SumSeq(s) == IF s = <<>> THEN 0 ELSE s[1] + SumSeq(Tail(s))

----------------------------------------------------------------------------
(* MetricObservation and the history buffer *)

MetricObservation(resourceType, resourceID, metricType, value) ==
    [ResourceType |-> resourceType, ResourceID |-> resourceID,
     MetricType |-> metricType, Value |-> value]

\* Variant: the trim keeps one observation too many.
recordObservation_KeepsOneMore(h, maxSize, resourceType, resourceID, metricType, value) ==
    LET a == Append(h, MetricObservation(resourceType, resourceID, metricType, value))
    IN  IF Len(a) > maxSize + 1
        THEN SubSeq(a, Len(a) - maxSize, Len(a))
        ELSE a

\* the index of the oldest observation of s with the key of obs, 0 if none
OldestOfKey(s, obs) ==
    LET same == {i \in 1..Len(s) : /\ s[i].ResourceType = obs.ResourceType
                                    /\ s[i].ResourceID = obs.ResourceID
                                    /\ s[i].MetricType = obs.MetricType}
    IN  IF same = {} THEN 0 ELSE CHOOSE i \in same : \A j \in same : i <= j

\* Variant: eviction per key: when full, the oldest observation of the same
\* key is dropped (the oldest of all only if the key has none).
recordObservation_PerKey(h, maxSize, resourceType, resourceID, metricType, value) ==
    LET obs == MetricObservation(resourceType, resourceID, metricType, value)
        k   == OldestOfKey(h, obs)
        a   == Append(h, obs)
    IN  IF Len(a) > maxSize
        THEN IF k = 0 THEN SubSeq(a, Len(a) - maxSize + 1, Len(a))
             ELSE SubSeq(a, 1, k - 1) \o SubSeq(a, k + 1, Len(a))
        ELSE a

\* the slice expression d.history[len(d.history)-d.maxHistorySize:] panics:
\* it is evaluated when the appended history, of Len(h) + 1 observations, is
\* longer than maxSize, and its low bound is then above the length (slice
\* bounds out of range) exactly when maxSize is below zero
recordObservationPanics(h, maxSize) ==
    /\ Len(h) + 1 > maxSize
    /\ Len(h) + 1 - maxSize > Len(h) + 1

\* d.history = append(d.history, obs); if len > max, keep the last max.
\* The history it leaves when it returns (maxSize >= 0).
recordObservation(h, maxSize, resourceType, resourceID, metricType, value) ==
    LET a == Append(h, MetricObservation(resourceType, resourceID, metricType, value))
    IN  IF Len(a) > maxSize
        THEN SubSeq(a, Len(a) - maxSize + 1, Len(a))
        ELSE a

GetMetricHistory(h, resourceType, resourceID, metricType) ==
    LET f == SelectSeq(h, LAMBDA obs : /\ obs.ResourceType = resourceType
                                       /\ obs.ResourceID = resourceID
                                       /\ obs.MetricType = metricType)
    IN  [i \in 1..Len(f) |-> f[i].Value]

----------------------------------------------------------------------------
(* Statistics *)

\* Numerator of the EWMA of values[1..k] over the denominator a[2]^(k-1):
\* ewma = values[1]; ewma = alpha*values[i] + (1-alpha)*ewma.
RECURSIVE EwmaNum(_, _, _)
EwmaNum(values, a, k) ==
    IF k = 1 THEN values[1]
    ELSE a[1] * values[k] * Pow(a[2], k - 2) + (a[2] - a[1]) * EwmaNum(values, a, k - 1)

\* mean = sum/n; variance (Bessel) = sum((v-mean)^2)/(n-1), 0 when n < 2;
\* stddev is returned as its square.  sum((v-mean)^2) = sum((n*v-sum)^2)/n^2,
\* and sum((n*v-sum)^2) is a multiple of n.
ComputeStats(values, a) ==
    IF Len(values) = 0
    THEN [mean |-> <<0, 1>>, stddev |-> <<0, 1>>, ewma |-> <<0, 1>>]
    ELSE LET n   == Len(values)
             sum == SumSeq(values)
             sq  == SumSeq([i \in 1..n |-> (n * values[i] - sum) * (n * values[i] - sum)])
         IN  [mean   |-> <<sum, n>>,
              stddev |-> IF n > 1 THEN <<sq \div n, n * (n - 1)>> ELSE <<0, 1>>,
              ewma   |-> <<EwmaNum(values, a, n), Pow(a[2], n - 1)>>]

\* p/q > r/s for p, r >= 0 and q, s > 0, compared by integer parts and the
\* reciprocals of the remainders, so that no product leaves the integer range
RECURSIVE FracGreater(_, _, _, _)
FracGreater(p, q, r, s) ==
    IF p \div q # r \div s THEN p \div q > r \div s
    ELSE IF p % q = 0 THEN FALSE
    ELSE IF r % s = 0 THEN TRUE
    ELSE FracGreater(s, r % s, q, p % q)

\* math.Abs((value-mean)/stddev) > k, for stddev = sqrt(sd[1]/sd[2]).
\* A float division by a zero stddev gives +Inf (greater than k) when the
\* numerator is not zero and NaN (every comparison false) when it is.
ZScoreAbove(value, mean, sd, k) ==
    LET d == Abs(value * mean[2] - mean[1])
    IN  IF sd[1] = 0 THEN d > 0
        ELSE FracGreater(d * d, mean[2] * mean[2], k * k * sd[1], sd[2])

\* math.Abs(value-ewma) > math.Max(k*stddev, floor)
EwmaDeviationAbove(value, ewma, sd, k, floor) ==
    LET d == Abs(value * ewma[2] - ewma[1])
    IN  /\ d > floor * ewma[2]
        /\ FracGreater(d * d, ewma[2] * ewma[2], k * k * sd[1], sd[2])

\* Variant: the fallback applies only to a zero stddev, not below minSd.
isAnomalyHistory_ZeroStdDevOnly(value, mean, stddev, ewma, threshold, minSd) ==
    IF stddev[1] = 0
    THEN value > threshold
    ELSE \/ ZScoreAbove(value, mean, stddev, 3)
         \/ value > threshold
         \/ EwmaDeviationAbove(value, ewma, stddev, 2, 5)

\* stddev < minSd, for an integer minSd
StdDevBelow(sd, minSd) == minSd > 0 /\ sd[1] < minSd * minSd * sd[2]

ZScoreLimit == 3
EwmaStdDevFactor == 2
minEwmaDeviation == 5

isAnomalyHistory(value, mean, stddev, ewma, threshold, minSd) ==
    IF StdDevBelow(stddev, minSd)
    THEN value > threshold
    ELSE \/ ZScoreAbove(value, mean, stddev, ZScoreLimit)
         \/ value > threshold
         \/ EwmaDeviationAbove(value, ewma, stddev, EwmaStdDevFactor, minEwmaDeviation)

----------------------------------------------------------------------------
(* DetectAnomalies *)

\* types.Anomaly.  Basis stands for the Description: which check produced it.
Anomaly(type, resource, namespace, severity, basis, value, threshold) ==
    [Type |-> type, Resource |-> resource, Namespace |-> namespace,
     Severity |-> severity, Basis |-> basis, Value |-> value,
     Threshold |-> threshold, ClusterID |-> "", ClusterName |-> ""]

AppendIf(cond, s, e) == IF cond THEN Append(s, e) ELSE s

\* Variant: the histories are read before the samples of the call are recorded.
DetectNode_ReadsBeforeRecord(acc, maxSize, node) ==
    LET cpu     == node.CPUUsagePercent
        mem     == node.MemoryUsagePercent
        h1      == recordObservation(acc.history, maxSize, "node", node.Name, "cpu", cpu)
        h2      == recordObservation(h1, maxSize, "node", node.Name, "memory", mem)
        cpuVals == GetMetricHistory(acc.history, "node", node.Name, "cpu")
        cpuSt   == ComputeStats(cpuVals, alpha)
        memVals == GetMetricHistory(acc.history, "node", node.Name, "memory")
        memSt   == ComputeStats(memVals, alpha)
        cpuA(b) == Anomaly("HighCPUUsage", node.Name, "", "High", b, cpu, cpuThreshold)
        memA(b) == Anomaly("HighMemoryUsage", node.Name, "", "High", b, mem, memoryThreshold)
        afterCpu == AppendIf(isAnomalyHistory(cpu, cpuSt.mean, cpuSt.stddev, cpuSt.ewma,
                                              cpuThreshold, minStdDev),
                             acc.anomalies, cpuA("statistics"))
    IN  IF Len(cpuVals) < NodeMinHistory
        THEN [history   |-> h2,
              anomalies |-> AppendIf(cpu > cpuThreshold, acc.anomalies,
                                     cpuA("insufficient history"))]
        ELSE IF Len(memVals) < NodeMinHistory
        THEN [history   |-> h2,
              anomalies |-> AppendIf(mem > memoryThreshold, afterCpu,
                                     memA("insufficient history"))]
        ELSE [history   |-> h2,
              anomalies |-> AppendIf(isAnomalyHistory(mem, memSt.mean, memSt.stddev,
                                                      memSt.ewma, memoryThreshold, minStdDev),
                                     afterCpu, memA("statistics"))]

\* One iteration of the node loop.  acc = [history, anomalies].
DetectNode(acc, maxSize, node) ==
    LET cpu     == node.CPUUsagePercent
        mem     == node.MemoryUsagePercent
        h1      == recordObservation(acc.history, maxSize, "node", node.Name, "cpu", cpu)
        h2      == recordObservation(h1, maxSize, "node", node.Name, "memory", mem)
        cpuVals == GetMetricHistory(h2, "node", node.Name, "cpu")
        cpuSt   == ComputeStats(cpuVals, alpha)
        memVals == GetMetricHistory(h2, "node", node.Name, "memory")
        memSt   == ComputeStats(memVals, alpha)
        cpuA(b) == Anomaly("HighCPUUsage", node.Name, "", "High", b, cpu, cpuThreshold)
        memA(b) == Anomaly("HighMemoryUsage", node.Name, "", "High", b, mem, memoryThreshold)
        afterCpu == AppendIf(isAnomalyHistory(cpu, cpuSt.mean, cpuSt.stddev, cpuSt.ewma,
                                              cpuThreshold, minStdDev),
                             acc.anomalies, cpuA("statistics"))
    IN  IF Len(cpuVals) < NodeMinHistory
        THEN \* threshold only, then "continue": the memory check is skipped
             [history   |-> h2,
              anomalies |-> AppendIf(cpu > cpuThreshold, acc.anomalies,
                                     cpuA("insufficient history"))]
        ELSE IF Len(memVals) < NodeMinHistory
        THEN [history   |-> h2,
              anomalies |-> AppendIf(mem > memoryThreshold, afterCpu,
                                     memA("insufficient history"))]
        ELSE [history   |-> h2,
              anomalies |-> AppendIf(isAnomalyHistory(mem, memSt.mean, memSt.stddev,
                                                      memSt.ewma, memoryThreshold, minStdDev),
                                     afterCpu, memA("statistics"))]

\* Variant: the history of a pod is kept under its namespace and name.
DetectPod_NamespacedKey(acc, maxSize, pod) ==
    LET restartCount == pod.RestartCount
        key  == pod.Namespace \o "/" \o pod.Name
        h1   == recordObservation(acc.history, maxSize, "pod", key, "restarts", restartCount)
        vals == GetMetricHistory(h1, "pod", key, "restarts")
        st   == ComputeStats(vals, alpha)
        rA(b) == Anomaly("HighPodRestarts", pod.Name, pod.Namespace, "Medium", b,
                         restartCount, podRestarts)
        afterRestarts == AppendIf(isAnomalyHistory(restartCount, st.mean, st.stddev, st.ewma,
                                                   podRestarts, minStdDev),
                                  acc.anomalies, rA("statistics"))
    IN  IF Len(vals) < PodMinHistory
        THEN [history   |-> h1,
              anomalies |-> AppendIf(restartCount > podRestarts, acc.anomalies,
                                     rA("insufficient history"))]
        ELSE [history   |-> h1,
              anomalies |-> AppendIf(pod.Status # "Running", afterRestarts,
                                     Anomaly("PodNotRunning", pod.Name, pod.Namespace,
                                             "High", "status", 0, 0))]

\* One iteration of the pod loop.
DetectPod(acc, maxSize, pod) ==
    LET restartCount == pod.RestartCount
        h1   == recordObservation(acc.history, maxSize, "pod", pod.Name, "restarts", restartCount)
        vals == GetMetricHistory(h1, "pod", pod.Name, "restarts")
        st   == ComputeStats(vals, alpha)
        rA(b) == Anomaly("HighPodRestarts", pod.Name, pod.Namespace, "Medium", b,
                         restartCount, podRestarts)
        afterRestarts == AppendIf(isAnomalyHistory(restartCount, st.mean, st.stddev, st.ewma,
                                                   podRestarts, minStdDev),
                                  acc.anomalies, rA("statistics"))
    IN  IF Len(vals) < PodMinHistory
        THEN \* threshold only, then "continue": the status check is skipped
             [history   |-> h1,
              anomalies |-> AppendIf(restartCount > podRestarts, acc.anomalies,
                                     rA("insufficient history"))]
        ELSE [history   |-> h1,
              anomalies |-> AppendIf(pod.Status # "Running", afterRestarts,
                                     Anomaly("PodNotRunning", pod.Name, pod.Namespace,
                                             "High", "status", 0, 0))]

\* Variant: the three checks are alternatives, the first that holds is the only one made.
DetectEvent_FirstRuleOnly(acc, event) ==
    LET eA(sev, b) == Anomaly("ClusterEvent", event.Resource, event.Namespace, sev, b, 0, 0)
    IN  [history |-> acc.history,
         anomalies |->
            IF event.Severity = "Error"
            THEN Append(acc.anomalies, eA("High", "error event"))
            ELSE IF event.Severity = "Warning" /\ event.Count > 5
            THEN Append(acc.anomalies, eA("Medium", "recurring warning"))
            ELSE IF event.Reason \in problematicReasons
            THEN Append(acc.anomalies, eA("High", "problematic event"))
            ELSE acc.anomalies]

\* Variant: the recurring-event check looks at the count alone, not at the severity.
DetectEvent_CountOnly(acc, event) ==
    LET eA(sev, b) == Anomaly("ClusterEvent", event.Resource, event.Namespace, sev, b, 0, 0)
        a1 == AppendIf(event.Severity = "Error", acc.anomalies, eA("High", "error event"))
        a2 == AppendIf(event.Count > 5, a1, eA("Medium", "recurring warning"))
        a3 == AppendIf(event.Reason \in problematicReasons, a2,
                       eA("High", "problematic event"))
    IN  [history |-> acc.history, anomalies |-> a3]

\* One iteration of the event loop: three independent checks.
DetectEvent(acc, event) ==
    LET eA(sev, b) == Anomaly("ClusterEvent", event.Resource, event.Namespace, sev, b, 0, 0)
        a1 == AppendIf(event.Severity = "Error", acc.anomalies, eA("High", "error event"))
        a2 == AppendIf(event.Severity = "Warning" /\ event.Count > WarningCountLimit,
                       a1, eA("Medium", "recurring warning"))
        a3 == AppendIf(event.Reason \in problematicReasons, a2,
                       eA("High", "problematic event"))
    IN  [history |-> acc.history, anomalies |-> a3]

RECURSIVE DetectNodes(_, _, _)
DetectNodes(acc, maxSize, nodes) ==
    IF nodes = <<>> THEN acc
    ELSE DetectNodes(DetectNode(acc, maxSize, Head(nodes)), maxSize, Tail(nodes))

RECURSIVE DetectPods(_, _, _)
DetectPods(acc, maxSize, pods) ==
    IF pods = <<>> THEN acc
    ELSE DetectPods(DetectPod(acc, maxSize, Head(pods)), maxSize, Tail(pods))

RECURSIVE DetectEvents(_, _)
DetectEvents(acc, events) ==
    IF events = <<>> THEN acc
    ELSE DetectEvents(DetectEvent(acc, Head(events)), Tail(events))

\* Detector.DetectAnomalies on history h: the history it leaves and the
\* anomalies it returns.  state.Pods lists the pods of state.Resources in the
\* order the map iteration visits them.
DetectAnomalies(h, maxSize, state) ==
    LET afterNodes == DetectNodes([history |-> h, anomalies |-> <<>>], maxSize, state.Nodes)
        afterPods  == DetectPods(afterNodes, maxSize, state.Pods)
    IN  DetectEvents(afterPods, state.Events)

----------------------------------------------------------------------------
(* Cluster state snapshots (types.ClusterState, the fields the detector reads) *)

Node(name, cpu, mem) ==
    [Name |-> name, Status |-> "Ready", CPUUsagePercent |-> cpu, MemoryUsagePercent |-> mem]
Pod(ns, name, restarts, status) ==
    [Namespace |-> ns, Name |-> name, RestartCount |-> restarts, Status |-> status]
ClusterEvent(severity, reason, count) ==
    [Severity |-> severity, Reason |-> reason, Count |-> count,
     Resource |-> "ev", Namespace |-> "ns1"]
ClusterState(nodes, pods, events) ==
    [ClusterID |-> "", ClusterName |-> "", Nodes |-> nodes, Pods |-> pods, Events |-> events]

EmptyState == ClusterState(<<>>, <<>>, <<>>)

\* metric values of the snapshots: one below and one above the thresholds
LowPercent == 10
HighPercent == 90
LowRestarts == 0
HighRestarts == 5

NodeInputs ==
    { <<Node("n1", c[1], c[2])>> :
        c \in {<<LowPercent, LowPercent>>, <<HighPercent, LowPercent>>,
               <<LowPercent, HighPercent>>} }
PodInputs ==
    { <<Pod("ns1", "p1", c[1], c[2])>> :
        c \in {<<LowRestarts, "Running">>, <<HighRestarts, "Running">>,
               <<LowRestarts, "Pending">>} }

\* the snapshots given to DetectAnomalies in SpecDetector
DetectorInputs ==
    { ClusterState(n, <<>>, <<>>) : n \in NodeInputs }
    \cup { ClusterState(<<>>, p, <<>>) : p \in PodInputs }
    \cup { ClusterState(<<Node("n1", LowPercent, HighPercent)>>,
                        <<Pod("ns1", "p1", LowRestarts, "Pending")>>, <<>>),
           ClusterState(<<>>, <<>>, <<ClusterEvent("Warning", "BackOff", 6)>>) }

----------------------------------------------------------------------------
(* SpecRecord: a Detector driven by recordObservation calls alone *)

RecordKeys == {<<"node", "n1", "cpu">>, <<"node", "n1", "memory">>, <<"pod", "p1", "restarts">>}
RecordValues == {LowPercent, HighPercent}

ClsIdle ==
    /\ clsIn = [value |-> 0, mean |-> 0, stddev |-> 0, ewma |-> 0,
                threshold |-> 0, minStdDev |-> 0]
    /\ clsOut = FALSE
    /\ clsPc = "idle"

\* no shutdown requested
NoRequest == [cycle |-> 0, stage |-> "none"]
CtlIdle ==
    /\ sigPending = FALSE
    /\ ctxDone = FALSE
    /\ requestedAt = NoRequest

\* no caller of the registry other than the multi-cluster agent
RegIdle ==
    /\ regBefore = <<>>
    /\ regOp = <<>>
    /\ regClock = 0
    /\ readers = 0
    /\ snapTodo = {}
    /\ snapOut = <<>>

\* no configuration file read
CfgIdle ==
    /\ configFile = <<>>
    /\ config = <<>>

\* no call of ComputeStats followed on its own
StatsIdle ==
    /\ statsIn = <<>>
    /\ statsOut = <<>>
    /\ statsPc = "idle"

\* no multi-cluster agent
OrchIdle ==
    /\ clusters = <<>>
    /\ agents = {}
    /\ agentState = <<>>
    /\ agentHistory = <<>>
    /\ observations = <<>>
    /\ mainPc = "idle"
    /\ taskPc = <<>>
    /\ errorsChan = <<>>
    /\ anomalyChan = <<>>
    /\ taskAnomalies = <<>>
    /\ cycle = 0
    /\ phase = <<>>
    /\ cycleResult = <<>>
    /\ phaseStart = <<>>
    /\ CtlIdle
    /\ RegIdle
    /\ CfgIdle

InitRecord ==
    /\ history = <<>>
    /\ maxHistorySize \in 1..MaxHistRec
    /\ panicked = FALSE
    /\ recorded = <<>>
    /\ preHistory = <<>>
    /\ lastState = EmptyState
    /\ lastAnomalies = <<>>
    /\ calls = 0
    /\ ClsIdle
    /\ OrchIdle
    /\ StatsIdle

\* d.recordObservation(key, value).  When the slice expression panics, the
\* appended history has been assigned already and the call does not return.
Record(key, value) ==
    /\ calls < MaxRecords
    /\ ~panicked
    /\ IF recordObservationPanics(history, maxHistorySize)
       THEN /\ history' = Append(history, MetricObservation(key[1], key[2], key[3], value))
            /\ panicked' = TRUE
       ELSE /\ history' = recordObservation(history, maxHistorySize, key[1], key[2], key[3],
                                            value)
            /\ panicked' = FALSE
    /\ recorded' = Append(recorded, MetricObservation(key[1], key[2], key[3], value))
    /\ calls' = calls + 1
    /\ UNCHANGED <<maxHistorySize, preHistory, lastState, lastAnomalies, clsVars, orchVars, ctlVars, regVars, cfgVars, statVars>>

NextRecord == \E key \in RecordKeys, value \in RecordValues : Record(key, value)

SpecRecord == InitRecord /\ [][NextRecord]_vars

----------------------------------------------------------------------------
(* SpecDetector: a Detector driven by DetectAnomalies calls *)

SmallHistorySize == 3
DefaultMaxHistorySize == 1000

InitDetector ==
    /\ history = <<>>
    /\ maxHistorySize \in {SmallHistorySize, DefaultMaxHistorySize}
    /\ panicked = FALSE
    /\ recorded = <<>>
    /\ preHistory = <<>>
    /\ lastState = EmptyState
    /\ lastAnomalies = <<>>
    /\ calls = 0
    /\ ClsIdle
    /\ OrchIdle
    /\ StatsIdle

Detect(state) ==
    /\ calls < MaxCalls
    /\ LET r == DetectAnomalies(history, maxHistorySize, state)
       IN  /\ history' = r.history
           /\ lastAnomalies' = r.anomalies
    /\ preHistory' = history
    /\ lastState' = state
    /\ calls' = calls + 1
    /\ UNCHANGED <<maxHistorySize, panicked, recorded, clsVars, orchVars, ctlVars, regVars, cfgVars, statVars>>

NextDetector == \E state \in DetectorInputs : Detect(state)

SpecDetector == InitDetector /\ [][NextDetector]_vars

----------------------------------------------------------------------------
(* SpecClassify: one call of isAnomalyHistory on arguments drawn from small sets *)

MaxClsValue == 12
MaxClsStdDev == 3

ClassifyInputs ==
    [value : 0..MaxClsValue, mean : 0..MaxClsValue, stddev : 0..MaxClsStdDev,
     ewma : {0, 5, 10}, threshold : {5, 10}, minStdDev : {1, 2}]

DetIdle ==
    /\ history = <<>>
    /\ maxHistorySize = DefaultMaxHistorySize
    /\ panicked = FALSE
    /\ recorded = <<>>
    /\ preHistory = <<>>
    /\ lastState = EmptyState
    /\ lastAnomalies = <<>>
    /\ calls = 0

InitClassify ==
    /\ DetIdle
    /\ OrchIdle
    /\ StatsIdle
    /\ clsIn \in ClassifyInputs
    /\ clsOut = FALSE
    /\ clsPc = "ready"

\* the float arguments as the model's exact values
ClsMean == <<clsIn.mean, 1>>
ClsStdDev == <<clsIn.stddev * clsIn.stddev, 1>>
ClsEwma == <<clsIn.ewma, 1>>

Classify ==
    /\ clsPc = "ready"
    /\ clsOut' = isAnomalyHistory(clsIn.value, ClsMean, ClsStdDev, ClsEwma,
                                  clsIn.threshold, clsIn.minStdDev)
    /\ clsPc' = "done"
    /\ UNCHANGED <<clsIn, detVars, orchVars, ctlVars, regVars, cfgVars, statVars>>

NextClassify == Classify

SpecClassify == InitClassify /\ [][NextClassify]_vars

----------------------------------------------------------------------------
(* The cluster registry (cluster.Manager) *)

\* config.Clusters as LoadConfig returns it
ClusterConfigs ==
    << [ID |-> "A", Name |-> "alpha", Enabled |-> TRUE],
       [ID |-> "B", Name |-> "beta", Enabled |-> TRUE] >>

EnabledIds == {ClusterConfigs[i].ID : i \in {j \in 1..Len(ClusterConfigs) : ClusterConfigs[j].Enabled}}

\* Variant: the enabled flag of the file is kept as it is.
setDefaults_KeepsEnabled(cfgs) == cfgs

\* config.setDefaults on the clusters LoadConfig has unmarshalled (each with a
\* name and an id): every cluster that is not enabled is set enabled
setDefaults(cfgs) ==
    [i \in 1..Len(cfgs) |->
        IF ~cfgs[i].Enabled THEN [cfgs[i] EXCEPT !.Enabled = TRUE] ELSE cfgs[i]]

NoError == "nil"
ObserveError == "observe failed"
CreateError == "agent creation failed"

\* Variant: a record is created for every configuration, enabled or not.
InitializeClusters_AllConfigs(cfgs, perIteration) ==
    [id \in {cfgs[j].ID : j \in 1..Len(cfgs)} |->
        LET k == CHOOSE j \in 1..Len(cfgs) :
                    /\ cfgs[j].ID = id
                    /\ \A l \in 1..Len(cfgs) : cfgs[l].ID = id => l <= j
        IN  [ClusterConfig |-> IF perIteration THEN cfgs[k] ELSE cfgs[Len(cfgs)],
             State |-> [ClusterID |-> cfgs[k].ID, ClusterName |-> cfgs[k].Name,
                        Nodes |-> <<>>, Pods |-> <<>>, Events |-> <<>>],
             LastUpdated |-> 0,
             Healthy |-> TRUE,
             Error |-> "nil"]]

\* Manager.InitializeClusters: one healthy record with an empty state per
\* enabled configuration (a later configuration with the same ID overwrites).
\* Each record keeps &clusterConfig, the address of the range loop's variable.
\* Built as Go 1.22 or later (go.mod), the variable is a new one in every
\* iteration (perIteration) and the record points to its own configuration;
\* built as an earlier version, it is one variable for the whole loop, and
\* every record points to it: it holds the last element of config.Clusters
\* once the loop has ended.
InitializeClusters(cfgs, perIteration) ==
    LET enabled == {j \in 1..Len(cfgs) : cfgs[j].Enabled}
    IN  [id \in {cfgs[j].ID : j \in enabled} |->
            LET k == CHOOSE j \in enabled :
                        /\ cfgs[j].ID = id
                        /\ \A l \in enabled : cfgs[l].ID = id => l <= j
            IN  [ClusterConfig |-> IF perIteration THEN cfgs[k] ELSE cfgs[Len(cfgs)],
                 State |-> [ClusterID |-> cfgs[k].ID, ClusterName |-> cfgs[k].Name,
                            Nodes |-> <<>>, Pods |-> <<>>, Events |-> <<>>],
                 LastUpdated |-> 0,
                 Healthy |-> TRUE,
                 Error |-> NoError]]

\* Variant: the new state is merged into the stored one (its nodes are added).
UpdateClusterState_Merge(cl, clusterID, state, now) ==
    IF clusterID \in DOMAIN cl
    THEN [cl EXCEPT ![clusterID].State =
                        [state EXCEPT !.Nodes = cl[clusterID].State.Nodes \o state.Nodes],
                    ![clusterID].LastUpdated = now,
                    ![clusterID].Healthy = TRUE,
                    ![clusterID].Error = "nil"]
    ELSE cl

\* Variant: the error of the record is left as it was.
UpdateClusterState_KeepsError(cl, clusterID, state, now) ==
    IF clusterID \in DOMAIN cl
    THEN [cl EXCEPT ![clusterID].State = state,
                    ![clusterID].LastUpdated = now,
                    ![clusterID].Healthy = TRUE]
    ELSE cl

\* Manager.UpdateClusterState at time now: the registry it leaves
\* (unchanged, with a not-found error returned, for an unknown id)
UpdateClusterState(cl, clusterID, state, now) ==
    IF clusterID \in DOMAIN cl
    THEN [cl EXCEPT ![clusterID].State = state,
                    ![clusterID].LastUpdated = now,
                    ![clusterID].Healthy = TRUE,
                    ![clusterID].Error = NoError]
    ELSE cl

\* Manager.UpdateClusterState: the error it returns
NotFoundError == "cluster not found"
UpdateClusterStateResult(cl, clusterID) ==
    IF clusterID \in DOMAIN cl THEN NoError ELSE NotFoundError

\* Variant: the health flag is set on every record of the registry.
SetClusterHealth_AllClusters(cl, clusterID, healthy, err, now) ==
    [id \in DOMAIN cl |-> [cl[id] EXCEPT !.Healthy = healthy, !.Error = err,
                                         !.LastUpdated = now]]

\* Manager.SetClusterHealth at time now
SetClusterHealth(cl, clusterID, healthy, err, now) ==
    IF clusterID \in DOMAIN cl
    THEN [cl EXCEPT ![clusterID].Healthy = healthy,
                    ![clusterID].Error = err,
                    ![clusterID].LastUpdated = now]
    ELSE cl

\* cluster.ClusterConfig.Name of the record GetCluster returns ("" if none)
ClusterNameOf(cl, clusterID) ==
    IF clusterID \in DOMAIN cl THEN cl[clusterID].ClusterConfig.Name ELSE ""

----------------------------------------------------------------------------
(* The multi-cluster agent (agent.MultiClusterAgent) and the main loop *)

\* number of ticks of the main loop explored
MaxCycles == 3

\* Variant: a failed creation is logged and the record is left as it is.
createClusterAgents_LogsOnly(cl, created) == cl

\* createClusterAgents: the clusters whose agent could not be created are
\* marked unhealthy; created is the set of ids whose agent was created.
createClusterAgents(cl, created) ==
    [id \in DOMAIN cl |->
        IF id \in created THEN cl[id]
        ELSE SetClusterHealth(cl, id, FALSE, CreateError, 0)[id]]

\* Variant: every agent is given the one detector of the multi-cluster agent.
DetectorOf_Shared(id) == "m.detector"

\* a.detector of the agent created for the cluster id: NewAgentWithoutMetrics
\* makes a new Detector for each agent
DetectorOf(id) == id

\* a.config.Clusters[0].Name of the agent created for the cluster id
ConfigNameOf(id) ==
    LET k == CHOOSE j \in 1..Len(ClusterConfigs) : ClusterConfigs[j].ID = id
    IN  ClusterConfigs[k].Name

\* what the collector of a cluster can return: one node, named after the cluster
NodeNameOf(id) == IF id = "A" THEN "nA" ELSE "nB"
CollectorOutputs(id) ==
    { [ClusterID |-> id, ClusterName |-> ConfigNameOf(id),
       Nodes |-> <<Node(NodeNameOf(id), cpu, LowPercent)>>, Pods |-> <<>>, Events |-> <<>>] :
      cpu \in {LowPercent, HighPercent} }

\* Agent.Learn: the observations it leaves.  Reward2 is twice the reward.
Learn(obs, state) ==
    LET notReady == Cardinality({i \in 1..Len(state.Nodes) : state.Nodes[i].Status # "Ready"})
        o == Append(obs, [State |-> state, Reward2 |-> 2 - notReady])
    IN  IF Len(o) > DefaultMaxHistorySize
        THEN SubSeq(o, Len(o) - DefaultMaxHistorySize + 1, Len(o))
        ELSE o

\* the cluster context DetectAllAnomalies adds to the anomalies of a cluster
TagAnomalies(anomalies, id, cl) ==
    [i \in 1..Len(anomalies) |->
        [anomalies[i] EXCEPT !.ClusterID = id,
                             !.ClusterName = IF id \in DOMAIN cl
                                             THEN ClusterNameOf(cl, id)
                                             ELSE anomalies[i].ClusterName]]

RECURSIVE Flatten(_)
Flatten(ss) == IF ss = <<>> THEN <<>> ELSE Head(ss) \o Flatten(Tail(ss))

NoPhase == [observe |-> "none", learned |-> FALSE, detected |-> FALSE]
NoResult == [observeErr |-> FALSE, detectReturned |-> FALSE, anomalies |-> <<>>]

Init ==
    /\ DetIdle
    /\ ClsIdle
    /\ StatsIdle
    /\ configFile = ClusterConfigs
    /\ config = setDefaults(configFile)
    /\ agents \in SUBSET EnabledIds
    /\ \E perIteration \in BOOLEAN :
          clusters = createClusterAgents(InitializeClusters(config, perIteration), agents)
    /\ agentState = [id \in agents |-> EmptyState]
    /\ agentHistory = [d \in {DetectorOf(id) : id \in agents} |-> <<>>]
    /\ observations = [id \in agents |-> <<>>]
    /\ mainPc = "select"
    /\ taskPc = [id \in agents |-> "idle"]
    /\ errorsChan = <<>>
    /\ anomalyChan = <<>>
    /\ taskAnomalies = [id \in agents |-> <<>>]
    /\ cycle = 0
    /\ phase = [id \in EnabledIds |-> NoPhase]
    /\ cycleResult = NoResult
    /\ phaseStart = clusters
    /\ CtlIdle
    /\ RegIdle

\* Variant: wg.Wait() returns as soon as one goroutine has ended.
AllTasksDone_AnyTaskDone == \E id \in agents : taskPc[id] = "done"

AllTasksDone == \A id \in agents : taskPc[id] = "done"

\* main: case <-sigChan: return
Signal ==
    /\ mainPc = "select"
    /\ mainPc' = "stopped"
    /\ UNCHANGED <<clusters, agents, agentState, agentHistory, observations, taskPc,
                   errorsChan, anomalyChan, taskAnomalies, cycle, phase, cycleResult,
                   detVars, clsVars, phaseStart, ctlVars, regVars, cfgVars, statVars>>

\* main: case <-ticker.C, and ObserveAllClusters up to wg.Wait(): one
\* goroutine per agent is started
Tick ==
    /\ mainPc = "select"
    /\ cycle < MaxCycles
    /\ cycle' = cycle + 1
    /\ mainPc' = "observeWait"
    /\ taskPc' = [id \in agents |-> "observe"]
    /\ errorsChan' = <<>>
    /\ phase' = [id \in EnabledIds |-> NoPhase]
    /\ cycleResult' = NoResult
    /\ phaseStart' = clusters
    /\ UNCHANGED <<clusters, agents, agentState, agentHistory, observations,
                   anomalyChan, taskAnomalies, detVars, clsVars, ctlVars, regVars, cfgVars, statVars>>

\* observe goroutine: a.ObserveCluster() returns nil, a.state is the new snapshot
ObserveOk(id, snapshot) ==
    /\ taskPc[id] = "observe"
    /\ agentState' = [agentState EXCEPT ![id] = snapshot]
    /\ taskPc' = [taskPc EXCEPT ![id] = "update"]
    /\ phase' = [phase EXCEPT ![id].observe = "ok"]
    /\ UNCHANGED <<clusters, agents, agentHistory, observations, mainPc, errorsChan,
                   anomalyChan, taskAnomalies, cycle, cycleResult, detVars, clsVars, phaseStart, ctlVars, regVars, cfgVars, statVars>>

\* observe goroutine: a.ObserveCluster() returns an error, a.state is left as it was
ObserveFail(id) ==
    /\ taskPc[id] = "observe"
    /\ taskPc' = [taskPc EXCEPT ![id] = "sethealth"]
    /\ phase' = [phase EXCEPT ![id].observe = "failed"]
    /\ UNCHANGED <<clusters, agents, agentState, agentHistory, observations, mainPc,
                   errorsChan, anomalyChan, taskAnomalies, cycle, cycleResult,
                   detVars, clsVars, phaseStart, ctlVars, regVars, cfgVars, statVars>>

\* observe goroutine: m.clusterManager.SetClusterHealth(id, false, err)
TaskSetHealth(id) ==
    /\ taskPc[id] = "sethealth"
    /\ clusters' = SetClusterHealth(clusters, id, FALSE, ObserveError, cycle)
    /\ taskPc' = [taskPc EXCEPT ![id] = "send"]
    /\ UNCHANGED <<agents, agentState, agentHistory, observations, mainPc, errorsChan,
                   anomalyChan, taskAnomalies, cycle, phase, cycleResult, detVars, clsVars, phaseStart, ctlVars, regVars, cfgVars, statVars>>

\* Variant: the channels are made without a buffer.
ChannelCapacity_Unbuffered(n) == 0

\* make(chan error, len(m.agents)), make(chan []types.Anomaly, len(m.agents)):
\* the capacity of the channel of a phase with n agents
ChannelCapacity(n) == n

\* Variant: the goroutine returns without sending its error.
TaskSendError_Drops(id) ==
    /\ taskPc[id] = "send"
    /\ taskPc' = [taskPc EXCEPT ![id] = "done"]
    /\ UNCHANGED <<clusters, agents, agentState, agentHistory, observations, mainPc,
                   errorsChan, anomalyChan, taskAnomalies, cycle, phase, cycleResult,
                   detVars, clsVars, phaseStart, ctlVars, regVars, cfgVars, statVars>>

\* observe goroutine: errors <- err (blocks while the channel is full), return
TaskSendError(id) ==
    /\ taskPc[id] = "send"
    /\ Len(errorsChan) < ChannelCapacity(Cardinality(agents))
    /\ errorsChan' = Append(errorsChan, [cluster |-> id, err |-> ObserveError])
    /\ taskPc' = [taskPc EXCEPT ![id] = "done"]
    /\ UNCHANGED <<clusters, agents, agentState, agentHistory, observations, mainPc,
                   anomalyChan, taskAnomalies, cycle, phase, cycleResult, detVars, clsVars, phaseStart, ctlVars, regVars, cfgVars, statVars>>

\* observe goroutine: state := a.state with the cluster's id and name,
\* m.clusterManager.UpdateClusterState(id, &state), return
TaskUpdateState(id) ==
    /\ taskPc[id] = "update"
    /\ LET state == [agentState[id] EXCEPT
                        !.ClusterID = id,
                        !.ClusterName = IF id \in DOMAIN clusters
                                        THEN ClusterNameOf(clusters, id)
                                        ELSE agentState[id].ClusterName]
       IN  clusters' = UpdateClusterState(clusters, id, state, cycle)
    /\ taskPc' = [taskPc EXCEPT ![id] = "done"]
    /\ UNCHANGED <<agents, agentState, agentHistory, observations, mainPc, errorsChan,
                   anomalyChan, taskAnomalies, cycle, phase, cycleResult, detVars, clsVars, phaseStart, ctlVars, regVars, cfgVars, statVars>>

\* Variant: the main loop goes on to Learn whatever ObserveAllClusters returned.
AfterObserve_NeverAborts(hasErrors) == "learn"

\* main: if err := multiAgent.ObserveAllClusters(); err != nil { log; continue }
AfterObserve(hasErrors) == IF hasErrors THEN "select" ELSE "learn"

\* ObserveAllClusters from wg.Wait() on: the channel is closed and drained, an
\* error is returned if it held anything; then the main loop's handling of it
ObserveReturn ==
    /\ mainPc = "observeWait"
    /\ AllTasksDone
    /\ LET hasErrors == errorsChan # <<>>
       IN  /\ cycleResult' = [cycleResult EXCEPT !.observeErr = hasErrors]
           /\ mainPc' = AfterObserve(hasErrors)
    /\ errorsChan' = <<>>
    /\ UNCHANGED <<clusters, agents, agentState, agentHistory, observations, taskPc,
                   anomalyChan, taskAnomalies, cycle, phase, detVars, clsVars, phaseStart, ctlVars, regVars, cfgVars, statVars>>

\* LearnFromAllClusters: agent.Learn() for every agent, one after the other
LearnFromAllClusters ==
    /\ mainPc = "learn"
    /\ observations' = [id \in agents |-> Learn(observations[id], agentState[id])]
    /\ phase' = [id \in EnabledIds |->
                    IF id \in agents THEN [phase[id] EXCEPT !.learned = TRUE] ELSE phase[id]]
    /\ mainPc' = "detectStart"
    /\ UNCHANGED <<clusters, agents, agentState, agentHistory, taskPc, errorsChan,
                   anomalyChan, taskAnomalies, cycle, cycleResult, detVars, clsVars, phaseStart, ctlVars, regVars, cfgVars, statVars>>

\* DetectAllAnomalies up to wg.Wait(): one goroutine per agent is started
DetectStart ==
    /\ mainPc = "detectStart"
    /\ taskPc' = [id \in agents |-> "detect"]
    /\ anomalyChan' = <<>>
    /\ mainPc' = "detectWait"
    /\ UNCHANGED <<clusters, agents, agentState, agentHistory, observations, errorsChan,
                   taskAnomalies, cycle, phase, cycleResult, detVars, clsVars, phaseStart, ctlVars, regVars, cfgVars, statVars>>

\* detect goroutine: a.DetectAnomalies() is entered, the call
\* a.detector.DetectAnomalies(a.state) is under way
TaskDetectBegin(id) ==
    /\ taskPc[id] = "detect"
    /\ taskPc' = [taskPc EXCEPT ![id] = "detecting"]
    /\ UNCHANGED <<clusters, agents, agentState, agentHistory, observations, mainPc,
                   errorsChan, anomalyChan, taskAnomalies, cycle, phase, cycleResult,
                   detVars, clsVars, phaseStart, ctlVars, regVars, cfgVars, statVars>>

\* detect goroutine: a.detector.DetectAnomalies(a.state) returns, having
\* recorded into the detector's history; a.DetectAnomalies() returns, and the
\* cluster context is added to each anomaly
TaskDetect(id) ==
    /\ taskPc[id] = "detecting"
    /\ LET r == DetectAnomalies(agentHistory[DetectorOf(id)], DefaultMaxHistorySize,
                                agentState[id])
       IN  /\ agentHistory' = [agentHistory EXCEPT ![DetectorOf(id)] = r.history]
           /\ taskAnomalies' = [taskAnomalies EXCEPT
                                    ![id] = TagAnomalies(r.anomalies, id, clusters)]
    /\ phase' = [phase EXCEPT ![id].detected = TRUE]
    /\ taskPc' = [taskPc EXCEPT ![id] = "sendAnomalies"]
    /\ UNCHANGED <<clusters, agents, agentState, observations, mainPc, errorsChan,
                   anomalyChan, cycle, cycleResult, detVars, clsVars, phaseStart, ctlVars, regVars, cfgVars, statVars>>

\* detect goroutine: anomalyChan <- anomalies (blocks while the channel is full)
TaskSendAnomalies(id) ==
    /\ taskPc[id] = "sendAnomalies"
    /\ Len(anomalyChan) < ChannelCapacity(Cardinality(agents))
    /\ anomalyChan' = Append(anomalyChan, taskAnomalies[id])
    /\ taskAnomalies' = [taskAnomalies EXCEPT ![id] = <<>>]
    /\ taskPc' = [taskPc EXCEPT ![id] = "done"]
    /\ UNCHANGED <<clusters, agents, agentState, agentHistory, observations, mainPc,
                   errorsChan, cycle, phase, cycleResult, detVars, clsVars, phaseStart, ctlVars, regVars, cfgVars, statVars>>

\* DetectAllAnomalies from wg.Wait() on: the channel is closed and its lists
\* are appended to allAnomalies, which is returned to the main loop
DetectReturn ==
    /\ mainPc = "detectWait"
    /\ AllTasksDone
    /\ cycleResult' = [cycleResult EXCEPT !.detectReturned = TRUE,
                                          !.anomalies = Flatten(anomalyChan)]
    /\ anomalyChan' = <<>>
    /\ mainPc' = "select"
    /\ UNCHANGED <<clusters, agents, agentState, agentHistory, observations, taskPc,
                   errorsChan, taskAnomalies, cycle, phase, detVars, clsVars, phaseStart, ctlVars, regVars, cfgVars, statVars>>

Next ==
    \/ Signal
    \/ Tick
    \/ \E id \in agents : \E snapshot \in CollectorOutputs(id) : ObserveOk(id, snapshot)
    \/ \E id \in agents : ObserveFail(id)
    \/ \E id \in agents : TaskSetHealth(id)
    \/ \E id \in agents : TaskSendError(id)
    \/ \E id \in agents : TaskUpdateState(id)
    \/ ObserveReturn
    \/ LearnFromAllClusters
    \/ DetectStart
    \/ \E id \in agents : TaskDetectBegin(id)
    \/ \E id \in agents : TaskDetect(id)
    \/ \E id \in agents : TaskSendAnomalies(id)
    \/ DetectReturn

Spec == Init /\ [][Next]_vars

----------------------------------------------------------------------------
(* The main loop with shutdown checks between the phases (main.go) *)

\* the stage of the cycle the main loop is in: the phase in flight, or the
\* phase that has just ended and whose boundary check is still to come
StageOf(pc) ==
    CASE pc \in {"observeWait", "checkLearn"} -> "observe"
      [] pc \in {"learn", "checkDetect"} -> "learn"
      [] pc \in {"detectStart", "detectWait"} -> "detect"
      [] OTHER -> "idle"

\* a SIGINT or SIGTERM is delivered into sigChan (buffer of one)
SignalArrives ==
    /\ mainPc # "stopped"
    /\ ~sigPending
    /\ sigPending' = TRUE
    /\ requestedAt' = IF requestedAt = NoRequest
                       THEN [cycle |-> cycle, stage |-> StageOf(mainPc)]
                       ELSE requestedAt
    /\ UNCHANGED <<ctxDone, orchVars, detVars, clsVars, regVars, cfgVars, statVars>>

\* the context of the multi-cluster agent is cancelled
ContextCancelled ==
    /\ mainPc # "stopped"
    /\ ~ctxDone
    /\ ctxDone' = TRUE
    /\ requestedAt' = IF requestedAt = NoRequest
                       THEN [cycle |-> cycle, stage |-> StageOf(mainPc)]
                       ELSE requestedAt
    /\ UNCHANGED <<sigPending, orchVars, detVars, clsVars, regVars, cfgVars, statVars>>

\* Variant: the checks between the phases see no request.
CheckShutdown_Never(sig, done) == FALSE

\* select { case <-sigChan: return; case <-ctx.Done(): return; default: }
CheckShutdown(sig, done) == sig \/ done

\* main: the outer select takes case <-sigChan or case <-ctx.Done(): return
CtxSelectShutdown ==
    /\ mainPc = "select"
    /\ sigPending \/ ctxDone
    /\ mainPc' = "stopped"
    /\ UNCHANGED <<clusters, agents, agentState, agentHistory, observations, taskPc,
                   errorsChan, anomalyChan, taskAnomalies, cycle, phase, cycleResult,
                   detVars, clsVars, phaseStart, ctlVars, regVars, cfgVars, statVars>>

\* main: the outer select takes case <-ticker.C (it may, also when a signal
\* or the cancellation is ready as well: select picks among the ready cases)
CtxTick ==
    /\ mainPc = "select"
    /\ cycle < MaxCycles
    /\ mainPc' = "tickCheck"
    /\ UNCHANGED <<clusters, agents, agentState, agentHistory, observations, taskPc,
                   errorsChan, anomalyChan, taskAnomalies, cycle, phase, cycleResult,
                   detVars, clsVars, phaseStart, ctlVars, regVars, cfgVars, statVars>>

\* main: the check before the operations; without a request the Observe phase
\* starts: one goroutine per agent
CtxTickCheck ==
    /\ mainPc = "tickCheck"
    /\ IF CheckShutdown(sigPending, ctxDone)
       THEN /\ mainPc' = "stopped"
            /\ UNCHANGED <<cycle, taskPc, errorsChan, phase, cycleResult, phaseStart>>
       ELSE /\ cycle' = cycle + 1
            /\ mainPc' = "observeWait"
            /\ taskPc' = [id \in agents |-> "observe"]
            /\ errorsChan' = <<>>
            /\ phase' = [id \in EnabledIds |-> NoPhase]
            /\ cycleResult' = NoResult
            /\ phaseStart' = clusters
    /\ UNCHANGED <<clusters, agents, agentState, agentHistory, observations,
                   anomalyChan, taskAnomalies, detVars, clsVars, ctlVars, regVars, cfgVars, statVars>>

\* main: what follows ObserveAllClustersWithContext: on an error, return if
\* the context is cancelled and continue otherwise; else the next check
AfterObserveCtx(hasErrors, done) ==
    IF hasErrors THEN (IF done THEN "stopped" ELSE "select") ELSE "checkLearn"

\* ObserveAllClustersWithContext returns: every goroutine has ended, and the
\* error is non-nil if one of them failed
ObserveAllClustersWithContext ==
    /\ mainPc = "observeWait"
    /\ AllTasksDone
    /\ LET hasErrors == errorsChan # <<>>
       IN  /\ cycleResult' = [cycleResult EXCEPT !.observeErr = hasErrors]
           /\ mainPc' = AfterObserveCtx(hasErrors, ctxDone)
    /\ errorsChan' = <<>>
    /\ UNCHANGED <<clusters, agents, agentState, agentHistory, observations, taskPc,
                   anomalyChan, taskAnomalies, cycle, phase, detVars, clsVars,
                   phaseStart, ctlVars, regVars, cfgVars, statVars>>

\* main: the check after the observation
CtxCheckLearn ==
    /\ mainPc = "checkLearn"
    /\ mainPc' = IF CheckShutdown(sigPending, ctxDone) THEN "stopped" ELSE "learn"
    /\ UNCHANGED <<clusters, agents, agentState, agentHistory, observations, taskPc,
                   errorsChan, anomalyChan, taskAnomalies, cycle, phase, cycleResult,
                   detVars, clsVars, phaseStart, ctlVars, regVars, cfgVars, statVars>>

\* main: LearnFromAllClusters, then on to the check after learning
CtxLearn ==
    /\ mainPc = "learn"
    /\ observations' = [id \in agents |-> Learn(observations[id], agentState[id])]
    /\ phase' = [id \in EnabledIds |->
                    IF id \in agents THEN [phase[id] EXCEPT !.learned = TRUE] ELSE phase[id]]
    /\ mainPc' = "checkDetect"
    /\ UNCHANGED <<clusters, agents, agentState, agentHistory, taskPc, errorsChan,
                   anomalyChan, taskAnomalies, cycle, cycleResult, detVars, clsVars,
                   phaseStart, ctlVars, regVars, cfgVars, statVars>>

\* main: the check after learning
CtxCheckDetect ==
    /\ mainPc = "checkDetect"
    /\ mainPc' = IF CheckShutdown(sigPending, ctxDone) THEN "stopped" ELSE "detectStart"
    /\ UNCHANGED <<clusters, agents, agentState, agentHistory, observations, taskPc,
                   errorsChan, anomalyChan, taskAnomalies, cycle, phase, cycleResult,
                   detVars, clsVars, phaseStart, ctlVars, regVars, cfgVars, statVars>>

\* DetectAllAnomaliesWithContext: its goroutines are started
DetectAllAnomaliesWithContextStart == DetectStart

\* DetectAllAnomaliesWithContext returns: every goroutine has ended, the
\* anomalies are collected and no error is returned; main goes on to select
DetectAllAnomaliesWithContext == DetectReturn

NextCtx ==
    \/ SignalArrives
    \/ ContextCancelled
    \/ CtxSelectShutdown
    \/ CtxTick
    \/ CtxTickCheck
    \/ \E id \in agents : \E snapshot \in CollectorOutputs(id) : ObserveOk(id, snapshot)
    \/ \E id \in agents : ObserveFail(id)
    \/ \E id \in agents : TaskSetHealth(id)
    \/ \E id \in agents : TaskSendError(id)
    \/ \E id \in agents : TaskUpdateState(id)
    \/ ObserveAllClustersWithContext
    \/ CtxCheckLearn
    \/ CtxLearn
    \/ CtxCheckDetect
    \/ DetectAllAnomaliesWithContextStart
    \/ \E id \in agents : TaskDetectBegin(id)
    \/ \E id \in agents : TaskDetect(id)
    \/ \E id \in agents : TaskSendAnomalies(id)
    \/ DetectAllAnomaliesWithContext

SpecCtx == Init /\ [][NextCtx]_vars

----------------------------------------------------------------------------
(* The registry under concurrent callers (SpecRegistry) *)

\* number of write calls (UpdateClusterState, SetClusterHealth) explored
MaxRegCalls == 3

\* the ids callers pass: the registered ones and one that never was
RegIds == EnabledIds \cup {"Z"}

\* a nil *types.ClusterState
NilState == [nil |-> TRUE]

\* the states callers pass to UpdateClusterState
RegStateInputs ==
    { NilState,
      ClusterState(<<>>, <<>>, <<>>),
      ClusterState(<<Node("n1", LowPercent, LowPercent)>>, <<>>, <<>>),
      ClusterState(<<Node("n1", HighPercent, LowPercent), Node("n2", LowPercent, LowPercent)>>,
                   <<>>, <<>>) }

\* the MultiClusterState GetMultiClusterState starts from; at is the content
\* of the registry when the read lock was taken, cur the record whose state
\* has been copied and which is still to be counted
EmptyMultiClusterState(cl) ==
    [Clusters |-> <<>>,
     Summary |-> [TotalClusters |-> 0, HealthyClusters |-> 0,
                  UnhealthyClusters |-> 0, TotalNodes |-> 0],
     cur |-> "", done |-> FALSE, at |-> cl]

\* no multi-cluster agent on top of the registry
AgentsIdle ==
    /\ agents = {}
    /\ agentState = <<>>
    /\ agentHistory = <<>>
    /\ observations = <<>>
    /\ mainPc = "idle"
    /\ taskPc = <<>>
    /\ errorsChan = <<>>
    /\ anomalyChan = <<>>
    /\ taskAnomalies = <<>>
    /\ cycle = 0
    /\ phase = <<>>
    /\ cycleResult = <<>>
    /\ phaseStart = <<>>

InitRegistry ==
    /\ DetIdle
    /\ ClsIdle
    /\ StatsIdle
    /\ configFile = ClusterConfigs
    /\ config = setDefaults(configFile)
    /\ CtlIdle
    /\ AgentsIdle
    /\ \E perIteration \in BOOLEAN : clusters = InitializeClusters(config, perIteration)
    /\ regBefore = clusters
    /\ regOp = [op |-> "none"]
    /\ regClock = 0
    /\ readers = 0
    /\ snapTodo = {}
    /\ snapOut = EmptyMultiClusterState(clusters)

\* Variant: m.mu.Lock() does not wait for the holders of the read lock.
WriterMayEnter_IgnoresReaders(r) == TRUE

\* m.mu.Lock() returns: no goroutine holds the read lock
WriterMayEnter(r) == r = 0

\* a caller's UpdateClusterState(id, state)
RegUpdateState(id, state) ==
    /\ regClock < MaxRegCalls
    /\ WriterMayEnter(readers)
    /\ regBefore' = clusters
    /\ clusters' = UpdateClusterState(clusters, id, state, regClock + 1)
    /\ regOp' = [op |-> "UpdateClusterState", id |-> id, state |-> state,
                 result |-> UpdateClusterStateResult(clusters, id)]
    /\ regClock' = regClock + 1
    /\ UNCHANGED <<readers, snapTodo, snapOut, agents, agentState, agentHistory,
                   observations, mainPc, taskPc, errorsChan, anomalyChan, taskAnomalies,
                   cycle, phase, cycleResult, phaseStart, detVars, clsVars, ctlVars, cfgVars, statVars>>

\* a caller's SetClusterHealth(id, healthy, err)
RegSetHealth(id, healthy, err) ==
    /\ regClock < MaxRegCalls
    /\ WriterMayEnter(readers)
    /\ regBefore' = clusters
    /\ clusters' = SetClusterHealth(clusters, id, healthy, err, regClock + 1)
    /\ regOp' = [op |-> "SetClusterHealth", id |-> id, healthy |-> healthy, err |-> err]
    /\ regClock' = regClock + 1
    /\ UNCHANGED <<readers, snapTodo, snapOut, agents, agentState, agentHistory,
                   observations, mainPc, taskPc, errorsChan, anomalyChan, taskAnomalies,
                   cycle, phase, cycleResult, phaseStart, detVars, clsVars, ctlVars, cfgVars, statVars>>

\* what the steps of the reader leave alone
ReaderFrame ==
    UNCHANGED <<clusters, regBefore, regOp, regClock, agents, agentState, agentHistory,
                observations, mainPc, taskPc, errorsChan, anomalyChan, taskAnomalies,
                cycle, phase, cycleResult, phaseStart, detVars, clsVars, ctlVars, cfgVars, statVars>>

\* GetMultiClusterState: m.mu.RLock(), the empty result, the range over
\* m.clusters begins
SnapshotLock ==
    /\ readers = 0
    /\ readers' = 1
    /\ snapTodo' = DOMAIN clusters
    /\ snapOut' = EmptyMultiClusterState(clusters)
    /\ ReaderFrame

\* GetMultiClusterState, loop body, first part: the state of a record is
\* copied into the result's map, if it is not nil
SnapshotCopyState(id) ==
    /\ readers = 1
    /\ id \in snapTodo
    /\ snapOut.cur = ""
    /\ snapOut' = [snapOut EXCEPT
                       !.cur = id,
                       !.Clusters = IF clusters[id].State # NilState
                                    THEN [k \in DOMAIN snapOut.Clusters \cup {id} |->
                                             IF k = id THEN clusters[id].State
                                             ELSE snapOut.Clusters[k]]
                                    ELSE snapOut.Clusters]
    /\ UNCHANGED <<readers, snapTodo>>
    /\ ReaderFrame

\* GetMultiClusterState, loop body, second part: the record is counted, as
\* healthy or unhealthy, and the nodes of its state are added
SnapshotCount ==
    /\ readers = 1
    /\ snapOut.cur # ""
    /\ LET c == clusters[snapOut.cur]
           sm == snapOut.Summary
       IN  snapOut' = [snapOut EXCEPT
                          !.cur = "",
                          !.Summary =
                              [TotalClusters |-> sm.TotalClusters + 1,
                               HealthyClusters |->
                                   sm.HealthyClusters + (IF c.Healthy THEN 1 ELSE 0),
                               UnhealthyClusters |->
                                   sm.UnhealthyClusters + (IF c.Healthy THEN 0 ELSE 1),
                               TotalNodes |->
                                   sm.TotalNodes + (IF c.State # NilState
                                                    THEN Len(c.State.Nodes) ELSE 0)]]
    /\ snapTodo' = snapTodo \ {snapOut.cur}
    /\ UNCHANGED readers
    /\ ReaderFrame

\* GetMultiClusterState: the loop has ended, m.mu.RUnlock(), return
SnapshotUnlock ==
    /\ readers = 1
    /\ snapTodo = {}
    /\ snapOut.cur = ""
    /\ ~snapOut.done
    /\ readers' = 0
    /\ snapOut' = [snapOut EXCEPT !.done = TRUE]
    /\ UNCHANGED snapTodo
    /\ ReaderFrame

NextRegistry ==
    \/ \E id \in RegIds : \E state \in RegStateInputs : RegUpdateState(id, state)
    \/ \E id \in RegIds : \E healthy \in BOOLEAN : \E err \in {NoError, ObserveError} :
          RegSetHealth(id, healthy, err)
    \/ SnapshotLock
    \/ \E id \in RegIds : SnapshotCopyState(id)
    \/ SnapshotCount
    \/ SnapshotUnlock

SpecRegistry == InitRegistry /\ [][NextRegistry]_vars

----------------------------------------------------------------------------
(* Properties of the history buffer (SpecRecord) *)

\* the last n elements of s (all of s when it has no more than n)
LastN(s, n) == IF Len(s) <= n THEN s ELSE SubSeq(s, Len(s) - n + 1, Len(s))

\* the values of the observations of s that carry key, in the order of s
RECURSIVE ValuesOf(_, _)
ValuesOf(s, key) ==
    IF s = <<>> THEN <<>>
    ELSE (IF <<s[1].ResourceType, s[1].ResourceID, s[1].MetricType>> = key
          THEN <<s[1].Value>> ELSE <<>>) \o ValuesOf(Tail(s), key)

\* C1: after any sequence of recordObservation calls on a Detector with a
\* positive maxHistorySize, the history holds at most maxHistorySize samples.
C1_HistoryBounded == Len(history) <= maxHistorySize

\* more samples were recorded than fit, and the history is full
C1_Witness == Len(recorded) > maxHistorySize /\ Len(history) = maxHistorySize

\* C2: eviction is global FIFO: the history is exactly the most recent
\* maxHistorySize recorded samples, over all keys, in insertion order, and
\* GetMetricHistory(key) returns exactly the retained values of that key in
\* insertion order.
C2_GlobalFifo ==
    /\ history = LastN(recorded, maxHistorySize)
    /\ \A key \in RecordKeys :
          GetMetricHistory(history, key[1], key[2], key[3])
              = ValuesOf(LastN(recorded, maxHistorySize), key)

\* records on one key have evicted every sample of another key
C2_Witness ==
    \E k1, k2 \in RecordKeys :
        /\ k1 # k2
        /\ maxHistorySize >= 2
        /\ ValuesOf(recorded, k1) # <<>>
        /\ GetMetricHistory(history, k1[1], k1[2], k1[3]) = <<>>
        /\ Len(GetMetricHistory(history, k2[1], k2[2], k2[3])) = maxHistorySize

----------------------------------------------------------------------------
(* Properties of DetectAnomalies (SpecDetector) *)

HasAnomaly(anomalies, type, resource) ==
    \E i \in 1..Len(anomalies) :
        anomalies[i].Type = type /\ anomalies[i].Resource = resource

\* the history right after the samples of node i of the last call were recorded
NodeHistoryAt(i) ==
    LET before == DetectNodes([history |-> preHistory, anomalies |-> <<>>],
                              maxHistorySize, SubSeq(lastState.Nodes, 1, i - 1)).history
        n == lastState.Nodes[i]
    IN  recordObservation(
            recordObservation(before, maxHistorySize, "node", n.Name, "cpu", n.CPUUsagePercent),
            maxHistorySize, "node", n.Name, "memory", n.MemoryUsagePercent)

\* the history right after the sample of pod j of the last call was recorded
PodHistoryAt(j) ==
    LET afterNodes == DetectNodes([history |-> preHistory, anomalies |-> <<>>],
                                  maxHistorySize, lastState.Nodes)
        before == DetectPods(afterNodes, maxHistorySize,
                             SubSeq(lastState.Pods, 1, j - 1)).history
        p == lastState.Pods[j]
    IN  recordObservation(before, maxHistorySize, "pod", p.Name, "restarts", p.RestartCount)

CpuBelowFloorThresholdOnly ==
    \A i \in 1..Len(lastState.Nodes) :
        LET n == lastState.Nodes[i] IN
        Len(GetMetricHistory(NodeHistoryAt(i), "node", n.Name, "cpu")) < NodeMinHistory
        => (HasAnomaly(lastAnomalies, "HighCPUUsage", n.Name)
               <=> n.CPUUsagePercent > cpuThreshold)

MemoryBelowFloorThresholdOnly ==
    \A i \in 1..Len(lastState.Nodes) :
        LET n == lastState.Nodes[i] IN
        Len(GetMetricHistory(NodeHistoryAt(i), "node", n.Name, "memory")) < NodeMinHistory
        => (HasAnomaly(lastAnomalies, "HighMemoryUsage", n.Name)
               <=> n.MemoryUsagePercent > memoryThreshold)

RestartsBelowFloorThresholdOnly ==
    \A j \in 1..Len(lastState.Pods) :
        LET p == lastState.Pods[j] IN
        Len(GetMetricHistory(PodHistoryAt(j), "pod", p.Name, "restarts")) < PodMinHistory
        => (HasAnomaly(lastAnomalies, "HighPodRestarts", p.Name)
               <=> p.RestartCount > podRestarts)

\* C3: for every metric kind (node CPU, floor 5; node memory, floor 5; pod
\* restarts, floor 3), when the key's history, the sample just recorded
\* included, is shorter than the floor, DetectAnomalies emits an anomaly for
\* that metric on that resource if and only if value > threshold.
C3_BelowFloorThresholdOnly ==
    /\ CpuBelowFloorThresholdOnly
    /\ MemoryBelowFloorThresholdOnly
    /\ RestartsBelowFloorThresholdOnly

CpuHardCeiling ==
    \A i \in 1..Len(lastState.Nodes) :
        LET n == lastState.Nodes[i] IN
        n.CPUUsagePercent > cpuThreshold => HasAnomaly(lastAnomalies, "HighCPUUsage", n.Name)

MemoryHardCeiling ==
    \A i \in 1..Len(lastState.Nodes) :
        LET n == lastState.Nodes[i] IN
        n.MemoryUsagePercent > memoryThreshold
        => HasAnomaly(lastAnomalies, "HighMemoryUsage", n.Name)

RestartsHardCeiling ==
    \A j \in 1..Len(lastState.Pods) :
        LET p == lastState.Pods[j] IN
        p.RestartCount > podRestarts => HasAnomaly(lastAnomalies, "HighPodRestarts", p.Name)

\* C4: in any DetectAnomalies call and for any history, a node CPU%, a node
\* memory% or a pod restart count strictly greater than its threshold yields
\* an anomaly for that metric on that resource in that call.
C4_HardCeiling == CpuHardCeiling /\ MemoryHardCeiling /\ RestartsHardCeiling

\* C7: whenever a pod's status is not "Running", the DetectAnomalies call
\* emits exactly one PodNotRunning anomaly of severity High for that pod,
\* whatever its restart count and the length of its restart history.
C7_PodNotRunning ==
    \A j \in 1..Len(lastState.Pods) :
        LET p == lastState.Pods[j] IN
        p.Status # "Running"
        => Cardinality({i \in 1..Len(lastAnomalies) :
                           /\ lastAnomalies[i].Type = "PodNotRunning"
                           /\ lastAnomalies[i].Resource = p.Name
                           /\ lastAnomalies[i].Namespace = p.Namespace
                           /\ lastAnomalies[i].Severity = "High"}) = 1

----------------------------------------------------------------------------
(* Properties of isAnomalyHistory (SpecClassify) *)

\* the decision the architecture document describes for stddev >= minStdDev
DocumentedDecision ==
    \/ /\ ZScoreAbove(clsIn.value, ClsMean, ClsStdDev, 4)
       /\ 10 * clsIn.value > 8 * clsIn.threshold
    \/ clsIn.value > clsIn.threshold
    \/ /\ EwmaDeviationAbove(clsIn.value, ClsEwma, ClsStdDev, 3, 5)
       /\ 10 * clsIn.value > 7 * clsIn.threshold

\* C5: when stddev >= minStdDev, isAnomalyHistory returns true if and only if
\* (|value-mean|/stddev > 4 and value > 0.8*threshold) or value > threshold
\* or (|value-ewma| > max(3*stddev, 5.0) and value > 0.7*threshold).
C5_MaterialityGates ==
    (clsPc = "done" /\ clsIn.stddev >= clsIn.minStdDev) => (clsOut <=> DocumentedDecision)

\* C6: whenever stddev < minStdDev, isAnomalyHistory returns exactly
\* value > threshold, whatever mean and ewma are.
C6_LowVarianceFallback ==
    (clsPc = "done" /\ clsIn.stddev < clsIn.minStdDev)
    => (clsOut <=> clsIn.value > clsIn.threshold)

\* a call with stddev < minStdDev whose value is far from the mean (the
\* z-score gate would fire) and not above the threshold returned false
C6_Witness ==
    /\ clsPc = "done"
    /\ clsIn.stddev < clsIn.minStdDev
    /\ clsIn.stddev > 0
    /\ ZScoreAbove(clsIn.value, ClsMean, ClsStdDev, ZScoreLimit)
    /\ clsIn.value <= clsIn.threshold
    /\ ~clsOut

----------------------------------------------------------------------------
(* Properties of a cycle of the main loop (Spec) *)

\* the cycle the main loop started last has come to its end
CycleOver == cycle > 0 /\ mainPc \in {"select", "stopped"}

\* every observe goroutine of the current cycle has returned
ObservePhaseOver == cycle > 0 /\ (mainPc = "observeWait" => AllTasksDone)

\* C8: in a cycle where one target's Observe fails and another target's
\* succeeds, the cycle reports an error but still runs Learn and Detect, and
\* the anomalies of the target that succeeded are in the cycle's result.
C8_PartialFailureStillDetects ==
    (/\ CycleOver
     /\ \E a \in agents : phase[a].observe = "failed"
     /\ \E b \in agents : phase[b].observe = "ok")
    => /\ cycleResult.observeErr
       /\ \A b \in agents :
             phase[b].observe = "ok"
             => /\ phase[b].learned
                /\ phase[b].detected
                /\ \A i \in 1..Len(agentState[b].Nodes) :
                      agentState[b].Nodes[i].CPUUsagePercent > cpuThreshold
                      => \E k \in 1..Len(cycleResult.anomalies) :
                            /\ cycleResult.anomalies[k].ClusterID = b
                            /\ cycleResult.anomalies[k].Type = "HighCPUUsage"
                            /\ cycleResult.anomalies[k].Resource = agentState[b].Nodes[i].Name

\* C9: a target whose Observe failed in a cycle is not learned from and not
\* detected in that cycle, and no anomaly of the cycle's result carries its id.
C9_FailedTargetExcluded ==
    \A t \in agents :
        phase[t].observe = "failed"
        => /\ ~phase[t].learned
           /\ ~phase[t].detected
           /\ \A k \in 1..Len(cycleResult.anomalies) : cycleResult.anomalies[k].ClusterID # t

\* a cycle is over in which one target failed to observe while it still holds
\* the state of an earlier cycle, with a CPU value above the threshold, and
\* another target was observed
C9_Witness ==
    /\ CycleOver
    /\ \E a, b \in agents :
          /\ phase[a].observe = "failed"
          /\ phase[b].observe = "ok"
          /\ \E i \in 1..Len(agentState[a].Nodes) :
                agentState[a].Nodes[i].CPUUsagePercent > cpuThreshold

\* C10: at the end of the Observe phase, under every interleaving of the
\* goroutines, every agent's goroutine has run to its end; a target whose
\* collector succeeded has its registry state replaced by the new snapshot and
\* is healthy with no error; a target whose collector failed is unhealthy
\* with its error recorded.
C10_ObserveIsolation ==
    ObservePhaseOver
    => \A t \in agents :
          /\ phase[t].observe \in {"ok", "failed"}
          /\ phase[t].observe = "ok"
             => /\ clusters[t].State = [agentState[t] EXCEPT
                                            !.ClusterName = clusters[t].State.ClusterName]
                /\ clusters[t].State.ClusterID = t
                /\ clusters[t].Healthy
                /\ clusters[t].Error = NoError
          /\ phase[t].observe = "failed"
             => /\ ~clusters[t].Healthy
                /\ clusters[t].Error = ObserveError

\* an Observe phase has ended in which one collector failed and another
\* succeeded with a snapshot that differs from the state the registry held
C10_Witness ==
    /\ mainPc = "observeWait"
    /\ AllTasksDone
    /\ cycle > 1
    /\ \E a, b \in agents :
          /\ phase[a].observe = "failed"
          /\ phase[b].observe = "ok"
          /\ clusters[b].State.Nodes # <<>>

\* C11: a target is unhealthy after any Observe phase in which its observation
\* failed and healthy after any Observe phase in which it succeeded, whatever
\* its health was when the phase started; on a success the stored nodes, pods
\* and events are those of the new snapshot alone, nothing of the state held
\* before remains.
C11_HealthFollowsObservation ==
    ObservePhaseOver
    => \A t \in agents :
          /\ phase[t].observe = "failed"
             => /\ ~clusters[t].Healthy
                /\ clusters[t].Error # NoError
          /\ phase[t].observe = "ok"
             => /\ clusters[t].Healthy
                /\ clusters[t].Error = NoError
                /\ clusters[t].State.Nodes = agentState[t].Nodes
                /\ clusters[t].State.Pods = agentState[t].Pods
                /\ clusters[t].State.Events = agentState[t].Events
                /\ Len(clusters[t].State.Nodes) = 1

\* an Observe phase is over in which a target succeeded that was unhealthy
\* from a failed observation when the phase started and whose stored state,
\* from an earlier success, differed from the new snapshot
C11_Witness ==
    /\ ObservePhaseOver
    /\ \E t \in agents :
          /\ phase[t].observe = "ok"
          /\ ~phaseStart[t].Healthy
          /\ phaseStart[t].Error = ObserveError
          /\ phaseStart[t].State.Nodes # <<>>
          /\ phaseStart[t].State.Nodes # clusters[t].State.Nodes
          /\ clusters[t].Healthy

\* ObserveAllClusters of the current cycle has returned
ObserveReturned == cycle > 0 /\ mainPc # "observeWait"

\* C12: when ObserveAllClusters has returned, every agent's observe task has
\* finished (its observation is made and its write to the registry is done),
\* and the error returned is non-nil if and only if at least one observation
\* failed.
C12_NoFailFast ==
    ObserveReturned
    => /\ \A t \in agents :
             /\ phase[t].observe \in {"ok", "failed"}
             /\ clusters[t].LastUpdated = cycle
       /\ cycleResult.observeErr <=> \E t \in agents : phase[t].observe = "failed"

\* ObserveAllClusters has returned an error from a phase in which one
\* observation failed and another target's new state was written
C12_Witness ==
    /\ ObserveReturned
    /\ cycleResult.observeErr
    /\ \E a, b \in agents :
          /\ phase[a].observe = "failed"
          /\ phase[b].observe = "ok"
          /\ clusters[b].LastUpdated = cycle
          /\ clusters[b].Healthy

\* C13: Learn runs for no target before every target's observe task has
\* finished, and no detect task exists before Learn has run for every target.
C13_PhaseOrder ==
    /\ mainPc = "learn" => \A u \in agents : taskPc[u] = "done"
    /\ \A t \in agents :
          phase[t].learned
          => \A u \in agents : /\ phase[u].observe \in {"ok", "failed"}
                               /\ clusters[u].LastUpdated = cycle
    /\ \A t \in agents :
          (taskPc[t] \in {"detect", "detecting", "sendAnomalies"} \/ phase[t].detected)
          => \A u \in agents : phase[u].learned

\* inside the Detect phase, which follows Learn for every target, one target's
\* task has finished while another target's has not started its call
C13_Witness ==
    /\ mainPc = "detectWait"
    /\ \E a, b \in agents :
          /\ taskPc[a] = "done"
          /\ taskPc[b] = "detect"
          /\ phase[a].learned
          /\ phase[b].learned
          /\ phase[a].detected
          /\ ~phase[b].detected

\* C15: no two detect tasks ever execute DetectAnomalies on the same Detector
\* at the same time.
C15_SingleWriter ==
    \A t, u \in agents :
        (t # u /\ taskPc[t] = "detecting" /\ taskPc[u] = "detecting")
        => DetectorOf(t) # DetectorOf(u)

\* two detect tasks are inside DetectAnomalies at the same time
C15_Witness ==
    \E t, u \in agents : t # u /\ taskPc[t] = "detecting" /\ taskPc[u] = "detecting"

----------------------------------------------------------------------------
(* Properties of the main loop with shutdown checks (SpecCtx) *)

----------------------------------------------------------------------------
(* Properties of the Detect phase (Spec) *)

\* the history of a target's detector when its detect call of this cycle started
\* (the call appends two observations per node and one per pod, and the
\* default limit is never reached here)
HistoryBeforeDetect(t) ==
    LET h == agentHistory[DetectorOf(t)]
        k == 2 * Len(agentState[t].Nodes) + Len(agentState[t].Pods)
    IN  SubSeq(h, 1, Len(h) - k)

\* what the target's Detect returns when run alone on that history and the
\* target's state, each anomaly with the id and the configured name of the target
StandaloneAnomalies(t) ==
    LET r == DetectAnomalies(HistoryBeforeDetect(t), DefaultMaxHistorySize, agentState[t])
    IN  [i \in 1..Len(r.anomalies) |->
            [r.anomalies[i] EXCEPT !.ClusterID = t, !.ClusterName = ConfigNameOf(t)]]

\* the anomalies of the aggregated result that carry the id t, in order
AnomaliesTagged(t) ==
    LET ofT(a) == a.ClusterID = t IN SelectSeq(cycleResult.anomalies, ofT)

\* the aggregated result holds, for each target, the anomalies of its
\* standalone Detect and nothing else, whatever the names they carry
UnionOfStandalone ==
    cycleResult.detectReturned
    => /\ \A t \in agents :
             /\ Len(AnomaliesTagged(t)) = Len(StandaloneAnomalies(t))
             /\ \A i \in 1..Len(AnomaliesTagged(t)) :
                    [AnomaliesTagged(t)[i] EXCEPT !.ClusterName = ""]
                    = [StandaloneAnomalies(t)[i] EXCEPT !.ClusterName = ""]
       /\ \A k \in 1..Len(cycleResult.anomalies) :
             cycleResult.anomalies[k].ClusterID \in agents

\* C16: when DetectAllAnomalies has returned, its result is, target by target,
\* what each target's Detect returns standalone, nothing lost, nothing added,
\* and every anomaly carries the id and the name of the target that produced it.
C16_UnionTagged ==
    cycleResult.detectReturned
    => /\ \A t \in agents : AnomaliesTagged(t) = StandaloneAnomalies(t)
       /\ \A k \in 1..Len(cycleResult.anomalies) :
             cycleResult.anomalies[k].ClusterID \in agents

\* the samples target t has recorded into history h
SamplesOf(h, t) ==
    LET ofT(o) == o.ResourceID = NodeNameOf(t) IN SelectSeq(h, ofT)

\* C17: all targets record into one shared history buffer: once two targets
\* have run Detect in a cycle, the buffer each of them recorded into is the
\* same one and holds the samples of both.
C17_SharedHistory ==
    \A t, u \in agents :
        (t # u /\ phase[t].detected /\ phase[u].detected)
        => /\ agentHistory[DetectorOf(t)] = agentHistory[DetectorOf(u)]
           /\ SamplesOf(agentHistory[DetectorOf(t)], u) # <<>>

----------------------------------------------------------------------------
(* Properties of the registry (SpecRegistry) *)

\* C18: after UpdateClusterState(id, state): if id was registered, no error
\* is returned and the record of id holds the given state, is healthy and has
\* no error; if id was not registered, a not-found error is returned and the
\* registry is what it was.
C18_UpdateState ==
    regOp.op = "UpdateClusterState"
    => IF regOp.id \in DOMAIN regBefore
       THEN /\ regOp.result = NoError
            /\ clusters[regOp.id].State = regOp.state
            /\ clusters[regOp.id].Healthy
            /\ clusters[regOp.id].Error = NoError
            /\ DOMAIN clusters = DOMAIN regBefore
       ELSE /\ regOp.result = NotFoundError
            /\ clusters = regBefore

\* UpdateClusterState has replaced the state of a registered target that was
\* unhealthy with an error and held another state
C18_Witness ==
    /\ regOp.op = "UpdateClusterState"
    /\ regOp.id \in DOMAIN regBefore
    /\ ~regBefore[regOp.id].Healthy
    /\ regBefore[regOp.id].Error = ObserveError
    /\ regBefore[regOp.id].State # regOp.state
    /\ regOp.state # NilState
    /\ regOp.state.Nodes # <<>>

\* UpdateClusterState has been called on an id that was never registered
C18_NotFoundReached ==
    /\ regOp.op = "UpdateClusterState"
    /\ regOp.id \notin DOMAIN regBefore
    /\ regClock > 1

\* C19: after SetClusterHealth(id, healthy, err): the record of id has the
\* given health flag and error, its state and configuration are what they
\* were, every other record is what it was, and for an id that is not
\* registered the registry is what it was.
C19_SetHealthFrame ==
    regOp.op = "SetClusterHealth"
    => IF regOp.id \in DOMAIN regBefore
       THEN /\ clusters[regOp.id].Healthy = regOp.healthy
            /\ clusters[regOp.id].Error = regOp.err
            /\ clusters[regOp.id].State = regBefore[regOp.id].State
            /\ clusters[regOp.id].ClusterConfig = regBefore[regOp.id].ClusterConfig
            /\ DOMAIN clusters = DOMAIN regBefore
            /\ \A o \in DOMAIN regBefore : o # regOp.id => clusters[o] = regBefore[o]
       ELSE clusters = regBefore

\* SetClusterHealth has marked unhealthy a target that holds a state with
\* nodes, while another target is healthy
C19_Witness ==
    /\ regOp.op = "SetClusterHealth"
    /\ regOp.id \in DOMAIN regBefore
    /\ ~regOp.healthy
    /\ regBefore[regOp.id].Healthy
    /\ regBefore[regOp.id].State # NilState
    /\ regBefore[regOp.id].State.Nodes # <<>>
    /\ \E o \in DOMAIN clusters : o # regOp.id /\ clusters[o].Healthy

RECURSIVE SumNodes(_, _)
\* the sum of the node counts of the states st[id], id in ids
SumNodes(st, ids) ==
    IF ids = {} THEN 0
    ELSE LET id == CHOOSE x \in ids : TRUE
         IN  Len(st[id].Nodes) + SumNodes(st, ids \ {id})

\* C20: every MultiClusterState returned is computed from the one content the
\* registry had when the snapshot began: its states are the non-nil states of
\* that content, healthy + unhealthy = total = the number of registered
\* targets, the healthy count is that content's, and the node total is the
\* sum over the states returned.
C20_SnapshotConsistent ==
    snapOut.done
    => LET sm == snapOut.Summary
           at == snapOut.at
       IN  /\ sm.HealthyClusters + sm.UnhealthyClusters = sm.TotalClusters
           /\ sm.TotalClusters = Cardinality(DOMAIN at)
           /\ sm.HealthyClusters = Cardinality({id \in DOMAIN at : at[id].Healthy})
           /\ DOMAIN snapOut.Clusters = {id \in DOMAIN at : at[id].State # NilState}
           /\ \A id \in DOMAIN snapOut.Clusters : snapOut.Clusters[id] = at[id].State
           /\ sm.TotalNodes = SumNodes(snapOut.Clusters, DOMAIN snapOut.Clusters)

\* a snapshot has been returned that counts a healthy and an unhealthy target
\* and nodes, and a write call has changed the registry since it began
C20_Witness ==
    /\ snapOut.done
    /\ snapOut.Summary.HealthyClusters = 1
    /\ snapOut.Summary.UnhealthyClusters = 1
    /\ snapOut.Summary.TotalNodes > 0
    /\ clusters # snapOut.at

----------------------------------------------------------------------------
(* The registry from its construction on (SpecManager) *)

\* the Config.Clusters a caller can build a Manager from: any number of
\* clusters with distinct ids, each enabled or not
ManagerConfigs ==
    {<<>>}
    \cup { <<[ID |-> "A", Name |-> "alpha", Enabled |-> ea]>> : ea \in BOOLEAN }
    \cup { <<[ID |-> "A", Name |-> "alpha", Enabled |-> ea],
             [ID |-> "B", Name |-> "beta", Enabled |-> eb]>> : ea \in BOOLEAN, eb \in BOOLEAN }

\* cluster.NewManager(cfg): an empty map of clusters
InitManager ==
    /\ DetIdle
    /\ ClsIdle
    /\ StatsIdle
    /\ CtlIdle
    /\ AgentsIdle
    /\ configFile = <<>>
    /\ config \in ManagerConfigs
    /\ clusters = <<>>
    /\ regBefore = clusters
    /\ regOp = [op |-> "none"]
    /\ regClock = 0
    /\ readers = 0
    /\ snapTodo = {}
    /\ snapOut = EmptyMultiClusterState(clusters)

\* clusterManager.InitializeClusters(), called once on the new manager
\* (NewMultiClusterAgent): the records it makes are put into m.clusters
RegInitializeClusters ==
    /\ regOp.op = "none"
    /\ WriterMayEnter(readers)
    /\ regBefore' = clusters
    /\ \E perIteration \in BOOLEAN :
          LET made == InitializeClusters(config, perIteration)
          IN  clusters' = [id \in DOMAIN clusters \cup DOMAIN made |->
                              IF id \in DOMAIN made THEN made[id] ELSE clusters[id]]
    /\ regOp' = [op |-> "InitializeClusters"]
    /\ UNCHANGED <<regClock, readers, snapTodo, snapOut, agents, agentState, agentHistory,
                   observations, mainPc, taskPc, errorsChan, anomalyChan, taskAnomalies,
                   cycle, phase, cycleResult, phaseStart, detVars, clsVars, ctlVars, cfgVars, statVars>>

\* the write calls made once the manager is initialized
NextManager ==
    \/ RegInitializeClusters
    \/ /\ regOp.op # "none"
       /\ \E id \in RegIds : \E state \in RegStateInputs : RegUpdateState(id, state)
    \/ /\ regOp.op # "none"
       /\ \E id \in RegIds : \E healthy \in BOOLEAN : \E err \in {NoError, ObserveError} :
             RegSetHealth(id, healthy, err)

SpecManager == InitManager /\ [][NextManager]_vars

----------------------------------------------------------------------------
(* Properties of the registry from its construction on (SpecManager) *)

\* the ids of the enabled clusters of a configuration
EnabledIdsOf(cfgs) == {cfgs[j].ID : j \in {i \in 1..Len(cfgs) : cfgs[i].Enabled}}

\* the number of enabled clusters of a configuration
EnabledCount(cfgs) == Cardinality({i \in 1..Len(cfgs) : cfgs[i].Enabled})

----------------------------------------------------------------------------
(* SpecEvents: a Detector given snapshots of cluster events *)

\* the largest occurrence count of an event explored
MaxEventCount == 7

\* an event of a given resource
ClusterEventOn(resource, severity, reason, count) ==
    [ClusterEvent(severity, reason, count) EXCEPT !.Resource = resource]

\* the severities of types.ClusterEvent and reasons in and out of problematicReasons
EventSeverities == {"Normal", "Warning", "Error"}
EventReasons == {"Scheduled", "BackOff", "FailedMount"}
EventCounts == {1, WarningCountLimit, WarningCountLimit + 1, MaxEventCount}

\* the events of a snapshot
EventDomain ==
    { ClusterEventOn("ev", sv, rs, ct) : sv \in EventSeverities, rs \in EventReasons,
                                         ct \in EventCounts }

\* the snapshots given to DetectAnomalies in SpecEvents: one event, two events
\* of different resources, and an event next to a node above its threshold
EventInputs ==
    { ClusterState(<<>>, <<>>, <<e>>) : e \in EventDomain }
    \cup { ClusterState(<<>>, <<>>,
                        <<ClusterEventOn("ev", sv, "BackOff", WarningCountLimit + 1),
                          ClusterEventOn("ev2", sw, "Scheduled", MaxEventCount)>>) :
           sv \in EventSeverities, sw \in EventSeverities }
    \cup { ClusterState(<<Node("n1", HighPercent, LowPercent)>>, <<>>,
                        <<ClusterEventOn("ev", "Error", "FailedMount", 1)>>) }

NextEvents == \E state \in EventInputs : Detect(state)

SpecEvents == InitDetector /\ [][NextEvents]_vars

----------------------------------------------------------------------------
(* Properties of the event checks (SpecEvents) *)

\* the three checks of the event loop
ErrorRule(e) == e.Severity = "Error"
RecurringWarningRule(e) == e.Severity = "Warning" /\ e.Count > WarningCountLimit
ProblematicReasonRule(e) == e.Reason \in problematicReasons

\* the number of checks an event satisfies
RulesSatisfied(e) ==
    (IF ErrorRule(e) THEN 1 ELSE 0) + (IF RecurringWarningRule(e) THEN 1 ELSE 0)
    + (IF ProblematicReasonRule(e) THEN 1 ELSE 0)

\* the anomalies a call returned for the event e (events of one snapshot are
\* of different resources)
EventRecords(anomalies, e) ==
    SelectSeq(anomalies, LAMBDA a : a.Type = "ClusterEvent" /\ a.Resource = e.Resource)

\* the severities and kinds of a sequence of anomalies, in order
KindsOf(recs) == [i \in 1..Len(recs) |-> <<recs[i].Severity, recs[i].Basis>>]

\* C22: for every event of the snapshot, DetectAnomalies returns one anomaly
\* per check the event satisfies and no other: a High one if its severity is
\* Error, then a Medium one if its severity is Warning and its count is above
\* 5, then a High one if its reason is one of the problematic reasons; so the
\* number of anomalies of an event is the number of checks it satisfies.
C22_OneAnomalyPerRule ==
    calls > 0 =>
        \A i \in 1..Len(lastState.Events) :
            LET e == lastState.Events[i]
                recs == EventRecords(lastAnomalies, e)
            IN  /\ Len(recs) = RulesSatisfied(e)
                /\ KindsOf(recs) =
                      (IF ErrorRule(e) THEN <<<<"High", "error event">>>> ELSE <<>>)
                      \o (IF RecurringWarningRule(e)
                          THEN <<<<"Medium", "recurring warning">>>> ELSE <<>>)
                      \o (IF ProblematicReasonRule(e)
                          THEN <<<<"High", "problematic event">>>> ELSE <<>>)

\* C22 witness: a snapshot of two events, one satisfying two checks and one
\* satisfying one, for which three anomalies were returned.
C22_Witness ==
    /\ calls > 0
    /\ Len(lastState.Events) = 2
    /\ RulesSatisfied(lastState.Events[1]) = 2
    /\ RulesSatisfied(lastState.Events[2]) = 1
    /\ Len(lastAnomalies) = 3

\* the anomalies DetectAnomalies would return, called now, for a snapshot of
\* the one event e
RecordsIfDetected(e) ==
    EventRecords(DetectAnomalies(history, maxHistorySize,
                                 ClusterState(<<>>, <<>>, <<e>>)).anomalies, e)

\* C23 as stated: some event satisfies all three checks at once, so that a
\* DetectAnomalies call returns three anomalies for it.
C23_ThreeRecords ==
    \E e \in EventDomain : Len(RecordsIfDetected(e)) = 3

\* C23, amended: an event satisfies at most two of the three checks, because
\* its severity cannot be both Error and Warning; an event that satisfies one
\* of these two and whose reason is a problematic one yields exactly two
\* anomalies, and no event yields more than two.
C23_AtMostTwoRecords ==
    /\ \A e \in EventDomain : Len(RecordsIfDetected(e)) <= 2
    /\ calls > 0 =>
          \A i \in 1..Len(lastState.Events) :
              LET e == lastState.Events[i]
                  recs == EventRecords(lastAnomalies, e)
              IN  /\ Len(recs) <= 2
                  /\ ~(ErrorRule(e) /\ RecurringWarningRule(e))
                  /\ (ErrorRule(e) \/ RecurringWarningRule(e)) /\ ProblematicReasonRule(e)
                        => Len(recs) = 2

\* C23 witness: a call returned two anomalies for one event, an error with a
\* problematic reason and a count above the limit of the warning check.
C23_Witness ==
    /\ calls > 0
    /\ Len(lastState.Events) = 1
    /\ lastState.Events[1].Severity = "Error"
    /\ lastState.Events[1].Count > WarningCountLimit
    /\ lastState.Events[1].Reason \in problematicReasons
    /\ Len(lastAnomalies) = 2

----------------------------------------------------------------------------
(* ComputeStats in floating point (SpecStats) *)

\* A float64 has a mantissa of 53 bits; the numbers here are binary
\* floating-point numbers with a mantissa of MantissaBits bits and an unbounded
\* exponent, every operation rounding its exact result to the nearest such
\* number, ties to even, as IEEE 754 does.  A number is <<m, e>>, standing for
\* m * 2^e, with m odd, or <<0, 0>>.
MantissaBits == 4

\* the largest numerator of the values given to ComputeStats
MaxStatValue == 10

\* the largest number of values given to ComputeStats
MaxStatLen == 3

FloatZero == <<0, 0>>
FloatOne == <<1, 0>>

\* the rational <<numerator, denominator>> a number stands for
RatOf(x) == IF x[2] >= 0 THEN <<x[1] * Pow(2, x[2]), 1>> ELSE <<x[1], Pow(2, -x[2])>>

RECURSIVE Canon(_, _)
Canon(m, e) ==
    IF m = 0 THEN FloatZero
    ELSE IF m % 2 = 0 THEN Canon(m \div 2, e + 1) ELSE <<m, e>>

\* a / (b * base^e) as a numerator and a denominator
ScaledNum(a, base, e) == IF e >= 0 THEN a ELSE a * Pow(base, -e)
ScaledDen(b, base, e) == IF e >= 0 THEN b * Pow(base, e) ELSE b

\* the exponent e for which 2^(MantissaBits-1) <= (a/b) / 2^e < 2^MantissaBits
RECURSIVE ExponentOf(_, _, _)
ExponentOf(a, b, e) ==
    IF ScaledNum(a, 2, e) >= Pow(2, MantissaBits) * ScaledDen(b, 2, e)
    THEN ExponentOf(a, b, e + 1)
    ELSE IF ScaledNum(a, 2, e) < Pow(2, MantissaBits - 1) * ScaledDen(b, 2, e)
    THEN ExponentOf(a, b, e - 1)
    ELSE e

\* the number nearest to a/b, for a >= 0 and b > 0
RoundPositive(a, b) ==
    LET e == ExponentOf(a, b, 0)
        n == ScaledNum(a, 2, e)
        d == ScaledDen(b, 2, e)
        q == n \div d
        r == n % d
    IN  Canon(IF 2 * r > d \/ (2 * r = d /\ q % 2 = 1) THEN q + 1 ELSE q, e)

\* the number nearest to a/b, for b > 0
Round(a, b) ==
    IF a = 0 THEN FloatZero
    ELSE IF a > 0 THEN RoundPositive(a, b)
    ELSE LET y == RoundPositive(-a, b) IN <<-y[1], y[2]>>

\* x + y, x - y, x * y and x / n (n a positive integer) in floating point
FloatAdd(x, y) ==
    LET rx == RatOf(x)
        ry == RatOf(y)
    IN  Round(rx[1] * ry[2] + ry[1] * rx[2], rx[2] * ry[2])
FloatSub(x, y) == FloatAdd(x, <<-y[1], y[2]>>)
FloatMul(x, y) ==
    LET rx == RatOf(x)
        ry == RatOf(y)
    IN  Round(rx[1] * ry[1], rx[2] * ry[2])
FloatDivInt(x, n) ==
    LET rx == RatOf(x) IN Round(rx[1], rx[2] * n)

\* the exponent e for which 2^(MantissaBits-1) <= sqrt(a/b) / 2^e < 2^MantissaBits
RECURSIVE SqrtExponentOf(_, _, _)
SqrtExponentOf(a, b, e) ==
    IF ScaledNum(a, 4, e) >= Pow(4, MantissaBits) * ScaledDen(b, 4, e)
    THEN SqrtExponentOf(a, b, e + 1)
    ELSE IF ScaledNum(a, 4, e) < Pow(4, MantissaBits - 1) * ScaledDen(b, 4, e)
    THEN SqrtExponentOf(a, b, e - 1)
    ELSE e

\* math.Sqrt(x), for x >= 0: the number nearest to the square root of x
FloatSqrt(x) ==
    IF x[1] = 0 THEN FloatZero
    ELSE LET rx == RatOf(x)
             e  == SqrtExponentOf(rx[1], rx[2], 0)
             n  == ScaledNum(rx[1], 4, e)
             d  == ScaledDen(rx[2], 4, e)
             q  == CHOOSE k \in Pow(2, MantissaBits - 1)..(Pow(2, MantissaBits) - 1) :
                       /\ k * k * d <= n
                       /\ (k + 1) * (k + 1) * d > n
             up == \/ (2 * q + 1) * (2 * q + 1) * d < 4 * n
                   \/ (2 * q + 1) * (2 * q + 1) * d = 4 * n /\ q % 2 = 1
         IN  Canon(IF up THEN q + 1 ELSE q, e)

\* sum += v over values[1..k], from sum = 0
RECURSIVE FloatSum(_, _)
FloatSum(values, k) ==
    IF k = 0 THEN FloatZero ELSE FloatAdd(FloatSum(values, k - 1), values[k])

\* variance += (v - mean) * (v - mean) over values[1..k], from variance = 0
RECURSIVE FloatSquares(_, _, _)
FloatSquares(values, mean, k) ==
    IF k = 0 THEN FloatZero
    ELSE FloatAdd(FloatSquares(values, mean, k - 1),
                  FloatMul(FloatSub(values[k], mean), FloatSub(values[k], mean)))

\* Variant: the average is alpha times the last value, whatever came before.
FloatEwma_LastValueOnly(values, a, k) == FloatMul(a, values[k])

\* ewma = values[0]; ewma = alpha*values[i] + (1-alpha)*ewma, up to values[k]
RECURSIVE FloatEwma(_, _, _)
FloatEwma(values, a, k) ==
    IF k = 1 THEN values[1]
    ELSE FloatAdd(FloatMul(a, values[k]),
                  FloatMul(FloatSub(FloatOne, a), FloatEwma(values, a, k - 1)))

\* Detector.ComputeStats as float64 arithmetic computes it
ComputeStatsFloat(values, a) ==
    IF Len(values) = 0
    THEN [mean |-> FloatZero, stddev |-> FloatZero, ewma |-> FloatZero]
    ELSE LET n    == Len(values)
             mean == FloatDivInt(FloatSum(values, n), n)
         IN  [mean   |-> mean,
              stddev |-> IF n > 1
                         THEN FloatSqrt(FloatDivInt(FloatSquares(values, mean, n), n - 1))
                         ELSE FloatZero,
              ewma   |-> FloatEwma(values, a, n)]

\* the values of a metric: whole numbers and quarters
StatValues == {Round(k, d) : k \in 1..MaxStatValue, d \in {1, 4}}

\* smoothing factors between 0 and 1: 1/2, 1/4 and 5/16 (0.3 to four bits)
StatAlphas == {Round(1, 2), Round(1, 4), Round(5, 16)}

\* the arguments of the call: no value, up to MaxStatLen times the same value,
\* or two different values
StatsInputs ==
    { [values |-> [i \in 1..n |-> v], alpha |-> a] :
        n \in 0..MaxStatLen, v \in StatValues, a \in StatAlphas }
    \cup { [values |-> <<v, FloatAdd(v, FloatOne)>>, alpha |-> a] :
             v \in StatValues, a \in StatAlphas }

\* no detector call, no classifier call
InitStats ==
    /\ DetIdle
    /\ ClsIdle
    /\ OrchIdle
    /\ statsIn \in StatsInputs
    /\ statsOut = [mean |-> FloatZero, stddev |-> FloatZero, ewma |-> FloatZero]
    /\ statsPc = "ready"

\* d.ComputeStats(values, alpha)
ComputeStatsCall ==
    /\ statsPc = "ready"
    /\ statsOut' = ComputeStatsFloat(statsIn.values, statsIn.alpha)
    /\ statsPc' = "done"
    /\ UNCHANGED <<statsIn, detVars, clsVars, orchVars, ctlVars, regVars, cfgVars>>

NextStats == ComputeStatsCall

SpecStats == InitStats /\ [][NextStats]_vars

----------------------------------------------------------------------------
(* Properties of ComputeStats (SpecStats) *)

\* all values of the sequence are the same
Identical(values) == \A i, j \in 1..Len(values) : values[i] = values[j]

\* a/b is a floating-point number: rounding leaves it as it is
IsExact(a, b) ==
    LET r == RatOf(Round(a, b)) IN r[1] * b = a * r[2]

\* no operation of ComputeStats on n times the value v rounds: the sums
\* v, 2v, ..., nv, the factor 1 - alpha and the products alpha*v and
\* (1 - alpha)*v are floating-point numbers
NoRounding(v, a, n) ==
    LET rv == RatOf(v)
        ra == RatOf(a)
    IN  /\ \A k \in 1..n : IsExact(k * rv[1], rv[2])
        /\ IsExact(ra[2] - ra[1], ra[2])
        /\ IsExact(ra[1] * rv[1], ra[2] * rv[2])
        /\ IsExact((ra[2] - ra[1]) * rv[1], ra[2] * rv[2])

\* the result (v, 0, v)
ValueZeroValue(v) == [mean |-> v, stddev |-> FloatZero, ewma |-> v]

C24_RoundedMean ==
    /\ statsPc = "done"
    /\ Len(statsIn.values) > 1
    /\ Identical(statsIn.values)
    /\ statsOut.mean # statsIn.values[1]
    /\ statsOut.stddev # FloatZero

----------------------------------------------------------------------------
(* SpecRecordAny: recordObservation under any maxHistorySize *)

\* the sizes a Detector can be given: NewDetector and SetMaxHistorySize take
\* any int, and setDefaults replaces only a size of 0
HistorySizeInputs == {-1, 0, 1, 2}

\* config.AnomalyDetection.MaxHistorySize after setDefaults
MaxHistorySizeDefault(size) == IF size = 0 THEN DefaultMaxHistorySize ELSE size

\* a detector built by NewDetector from a size of the configuration file
\* (through setDefaults) or from a size given by the caller
InitRecordAny ==
    /\ history = <<>>
    /\ maxHistorySize \in HistorySizeInputs \cup {MaxHistorySizeDefault(size) : size \in HistorySizeInputs}
    /\ panicked = FALSE
    /\ recorded = <<>>
    /\ preHistory = <<>>
    /\ lastState = EmptyState
    /\ lastAnomalies = <<>>
    /\ calls = 0
    /\ ClsIdle
    /\ OrchIdle
    /\ StatsIdle

\* d.SetMaxHistorySize(size)
SetMaxHistorySize(size) ==
    /\ ~panicked
    /\ maxHistorySize # size
    /\ maxHistorySize' = size
    /\ UNCHANGED <<history, panicked, recorded, preHistory, lastState, lastAnomalies, calls,
                   clsVars, orchVars, ctlVars, regVars, cfgVars, statVars>>

NextRecordAny ==
    \/ \E key \in RecordKeys, value \in RecordValues : Record(key, value)
    \/ \E size \in HistorySizeInputs : SetMaxHistorySize(size)

SpecRecordAny == InitRecordAny /\ [][NextRecordAny]_vars

----------------------------------------------------------------------------
(* Properties of recordObservation under any maxHistorySize (SpecRecordAny) *)

\* C25: whatever maxHistorySize the detector was given, by NewDetector, by
\* SetMaxHistorySize or from the configuration, every recordObservation call
\* returns normally (none panics) and leaves a history that holds the newest
\* observations recorded, no more of them than a positive maxHistorySize.
C25_RecordNeverFails ==
    /\ ~panicked
    /\ \E n \in 0..Len(recorded) : history = LastN(recorded, n)

\* a state in which the call has panicked: the size is negative
C25_Panicked == panicked /\ maxHistorySize < 0 /\ Len(recorded) > 0

----------------------------------------------------------------------------
(* The program from the configuration file on (SpecStartup) *)

\* the clusters section of the configuration file: the two clusters, each
\* with enabled: true or enabled: false
FileConfigs ==
    { [j \in 1..Len(ClusterConfigs) |-> [ClusterConfigs[j] EXCEPT !.Enabled = flags[j]]] :
      flags \in [1..Len(ClusterConfigs) -> BOOLEAN] }

\* main: the file is there, nothing is loaded or built
InitStartup ==
    /\ DetIdle
    /\ ClsIdle
    /\ StatsIdle
    /\ CtlIdle
    /\ RegIdle
    /\ configFile \in FileConfigs
    /\ config = <<>>
    /\ clusters = <<>>
    /\ agents = {}
    /\ agentState = <<>>
    /\ agentHistory = <<>>
    /\ observations = <<>>
    /\ mainPc = "start"
    /\ taskPc = <<>>
    /\ errorsChan = <<>>
    /\ anomalyChan = <<>>
    /\ taskAnomalies = <<>>
    /\ cycle = 0
    /\ phase = <<>>
    /\ cycleResult = NoResult
    /\ phaseStart = <<>>

\* config.LoadConfig: the file is unmarshalled and setDefaults is applied
LoadConfig ==
    /\ mainPc = "start"
    /\ config' = setDefaults(configFile)
    /\ mainPc' = "loaded"
    /\ UNCHANGED <<configFile, clusters, agents, agentState, agentHistory, observations,
                   taskPc, errorsChan, anomalyChan, taskAnomalies, cycle, phase,
                   cycleResult, phaseStart, detVars, clsVars, ctlVars, regVars, statVars>>

\* agent.NewMultiClusterAgent(cfg): the manager is initialized, then an agent
\* is created for every enabled cluster; created are those whose creation
\* succeeds.  The main loop starts.
NewMultiClusterAgent ==
    /\ mainPc = "loaded"
    /\ \E perIteration \in BOOLEAN : \E created \in SUBSET EnabledIdsOf(config) :
          /\ clusters' = createClusterAgents(InitializeClusters(config, perIteration), created)
          /\ agents' = created
          /\ agentState' = [id \in created |-> EmptyState]
          /\ agentHistory' = [d \in {DetectorOf(id) : id \in created} |-> <<>>]
          /\ observations' = [id \in created |-> <<>>]
          /\ taskPc' = [id \in created |-> "idle"]
          /\ taskAnomalies' = [id \in created |-> <<>>]
    /\ phase' = [id \in EnabledIds |-> NoPhase]
    /\ phaseStart' = clusters'
    /\ mainPc' = "select"
    /\ UNCHANGED <<errorsChan, anomalyChan, cycle, cycleResult, detVars, clsVars, ctlVars,
                   regVars, cfgVars, statVars>>

NextStartup ==
    \/ LoadConfig
    \/ NewMultiClusterAgent
    \/ Next

SpecStartup == InitStartup /\ [][NextStartup]_vars

----------------------------------------------------------------------------
(* Properties of the program from the configuration file on (SpecStartup) *)

\* the ids of the clusters the file has with enabled: false
DisabledInFile == {configFile[j].ID : j \in {i \in 1..Len(configFile) : ~configFile[i].Enabled}}

\* C26: a cluster that the configuration file has with enabled: false is not
\* monitored: once the configuration is loaded and the agent is built, the
\* manager has no record of it, no agent exists for it, and no cycle observes
\* it or runs the detection on it.
C26_DisabledNotMonitored ==
    \A id \in DisabledInFile :
        /\ id \notin DOMAIN clusters
        /\ id \notin agents
        /\ id \in DOMAIN phase => phase[id].observe = "none" /\ ~phase[id].detected

\* a cluster with enabled: false in the file has been observed, and the
\* detection has run on it
C26_DisabledDetected ==
    \E id \in DisabledInFile :
        /\ id \in agents
        /\ id \in DOMAIN phase
        /\ phase[id].observe = "ok"
        /\ phase[id].detected

----------------------------------------------------------------------------
(* Properties of the fan-out of a phase (Spec) *)

\* the goroutines of the current phase that have ended
TasksDone == {id \in agents : taskPc[id] = "done"}

\* C27: in ObserveAllClusters and DetectAllAnomalies no goroutine ever waits
\* to send: a goroutine sends at most one message, so a channel holds no more
\* messages than goroutines have ended, and there is room in it whenever a
\* goroutine is about to send; the channel is emptied only after all
\* goroutines have ended; hence, while the main loop waits in a phase, some
\* step can always be taken, and the phase returns once the per-cluster calls
\* have.
C27_SendNeverBlocks ==
    /\ mainPc = "observeWait" =>
          /\ Len(errorsChan) <= Cardinality(TasksDone)
          /\ \A i, j \in 1..Len(errorsChan) :
                errorsChan[i].cluster = errorsChan[j].cluster => i = j
          /\ \A id \in agents :
                taskPc[id] = "send" => Len(errorsChan) < ChannelCapacity(Cardinality(agents))
    /\ mainPc = "detectWait" =>
          /\ Len(anomalyChan) <= Cardinality(TasksDone)
          /\ \A id \in agents :
                taskPc[id] = "sendAnomalies"
                    => Len(anomalyChan) < ChannelCapacity(Cardinality(agents))
    /\ mainPc \in {"observeWait", "detectWait"} => ENABLED Next
    /\ mainPc \in {"observeWait", "detectWait"} /\ AllTasksDone
          => ENABLED (ObserveReturn \/ DetectReturn)

\* C27 witness: two agents, both have failed and sent their error, and the
\* channel is filled to its capacity while ObserveAllClusters still waits.
C27_Witness ==
    /\ mainPc = "observeWait"
    /\ Cardinality(agents) = 2
    /\ Len(errorsChan) = ChannelCapacity(Cardinality(agents))
    /\ AllTasksDone

----------------------------------------------------------------------------
(* SpecPods: a Detector given snapshots of pods of two namespaces *)

\* the largest number of samples in the history explored by SpecPods
MaxPodSamples == 6

\* the snapshots given to DetectAnomalies in SpecPods: one pod, two pods of
\* the same name in two namespaces, two pods of different names; the range
\* over the map state.Resources visits the two namespaces in either order
PodSnapshotInputs ==
    { ClusterState(<<>>, <<Pod("ns1", "p1", r, "Running")>>, <<>>) :
        r \in {LowRestarts, HighRestarts} }
    \cup { ClusterState(<<>>, <<Pod(ns[1], "p1", r1, "Running"),
                                Pod(ns[2], n2, r2, "Running")>>, <<>>) :
             r1 \in {LowRestarts, HighRestarts}, r2 \in {LowRestarts, HighRestarts},
             n2 \in {"p1", "p2"}, ns \in {<<"ns1", "ns2">>, <<"ns2", "ns1">>} }

\* d.DetectAnomalies(state), while the history explored has room for its samples
DetectPodsCall(state) ==
    /\ Len(history) + Len(state.Pods) <= MaxPodSamples
    /\ Detect(state)

NextPods == \E state \in PodSnapshotInputs : DetectPodsCall(state)

SpecPods == InitDetector /\ [][NextPods]_vars

----------------------------------------------------------------------------
(* Properties of the pod restart series (SpecPods) *)

\* the restart counts of the pods i <= j of the last snapshot that have the
\* name of pod j, whatever their namespace
RECURSIVE SameNameCounts(_, _)
SameNameCounts(j, k) ==
    IF k = 0 THEN <<>>
    ELSE SameNameCounts(j, k - 1)
         \o (IF lastState.Pods[k].Name = lastState.Pods[j].Name
             THEN <<lastState.Pods[k].RestartCount>> ELSE <<>>)

\* the series pod j of the last snapshot is classified against, when nothing
\* is evicted: the samples recorded under its name before the call, followed
\* by those of the pods of that name up to pod j
CombinedSeries(j) ==
    GetMetricHistory(preHistory, "pod", lastState.Pods[j].Name, "restarts")
    \o SameNameCounts(j, j)

\* the decision on a restart count against a series
RestartDecision(series, count) ==
    IF Len(series) < PodMinHistory
    THEN count > podRestarts
    ELSE LET st == ComputeStats(series, alpha)
         IN  isAnomalyHistory(count, st.mean, st.stddev, st.ewma, podRestarts, minStdDev)

\* a HighPodRestarts anomaly was returned for the pod (the pods of a snapshot
\* differ in their namespace or in their name)
HasRestartAnomaly(anomalies, pod) ==
    \E i \in 1..Len(anomalies) :
        /\ anomalies[i].Type = "HighPodRestarts"
        /\ anomalies[i].Resource = pod.Name
        /\ anomalies[i].Namespace = pod.Namespace
        /\ anomalies[i].Value = pod.RestartCount

\* C28: the restart history of a pod is kept under ("pod", pod name,
\* "restarts"), without the namespace: the samples of two pods of one name in
\* different namespaces of a snapshot go into one series, and each of the two
\* is classified against that combined series (by the threshold alone while
\* the combined series has fewer than 3 samples, statistically from then on).
\* Stated for the calls that evict nothing from the history.
C28_SeriesSharedAcrossNamespaces ==
    calls > 0 /\ Len(preHistory) + Len(lastState.Pods) <= maxHistorySize =>
        \A j \in 1..Len(lastState.Pods) :
            LET p == lastState.Pods[j]
                last == CHOOSE k \in j..Len(lastState.Pods) :
                            /\ lastState.Pods[k].Name = p.Name
                            /\ \A l \in j..Len(lastState.Pods) :
                                  lastState.Pods[l].Name = p.Name => l <= k
            IN  /\ GetMetricHistory(history, "pod", p.Name, "restarts") = CombinedSeries(last)
                /\ HasRestartAnomaly(lastAnomalies, p)
                      <=> RestartDecision(CombinedSeries(j), p.RestartCount)

\* C28 witness: the first snapshot ever has two pods of one name in two
\* namespaces and a third sample of that name follows in the next snapshot:
\* the pod of the first namespace is then classified statistically, on a
\* series two of whose three samples (one of them another pod's) are older.
C28_Witness ==
    /\ calls = 2
    /\ Len(preHistory) = 2
    /\ preHistory[1].Value # preHistory[2].Value
    /\ Len(lastState.Pods) = 2
    /\ lastState.Pods[1].Name = lastState.Pods[2].Name
    /\ lastState.Pods[1].Namespace # lastState.Pods[2].Namespace
    /\ Len(GetMetricHistory(history, "pod", "p1", "restarts")) = 4
    /\ Len(CombinedSeries(1)) = PodMinHistory

----------------------------------------------------------------------------
(* Properties of a cluster without agent (SpecStartup) *)

\* Manager.GetClusterSummary: the counts GetMultiClusterState makes under the
\* read lock
GetClusterSummary(cl) ==
    [TotalClusters |-> Cardinality(DOMAIN cl),
     HealthyClusters |-> Cardinality({id \in DOMAIN cl : cl[id].Healthy}),
     UnhealthyClusters |-> Cardinality({id \in DOMAIN cl : ~cl[id].Healthy})]

\* the clusters of the registry whose agent could not be created
WithoutAgent == DOMAIN clusters \ agents

\* C29: a cluster whose agent could not be created at startup is marked
\* unhealthy, with the creation error; no later cycle observes it, learns from
\* it or runs the detection on it, so nothing makes it healthy again, and
\* every summary counts it as unhealthy.
C29_NoAgentStaysUnhealthy ==
    mainPc \notin {"start", "loaded"} =>
        /\ \A id \in WithoutAgent :
              /\ ~clusters[id].Healthy
              /\ clusters[id].Error = CreateError
              /\ clusters[id].State.Nodes = <<>>
              /\ phase[id] = NoPhase
              /\ id \notin DOMAIN taskPc
              /\ id \notin DOMAIN observations
        /\ GetClusterSummary(clusters).UnhealthyClusters >= Cardinality(WithoutAgent)
        /\ GetClusterSummary(clusters).HealthyClusters <= Cardinality(agents)

\* C29 witness: the agent of one cluster could not be created; in a later
\* cycle the other cluster was observed, learned from and detected, and the
\* summary counts one healthy and one unhealthy cluster.
C29_Witness ==
    /\ cycle >= 2
    /\ mainPc = "select"
    /\ Cardinality(WithoutAgent) = 1
    /\ \E id \in agents : phase[id].observe = "ok" /\ phase[id].learned /\ phase[id].detected
    /\ GetClusterSummary(clusters).HealthyClusters = 1
    /\ GetClusterSummary(clusters).UnhealthyClusters = 1

----------------------------------------------------------------------------
(* SpecWindow: a Detector with a history of any size, driven by DetectAnomalies *)

\* the sizes of the history: none, one, two and the default
WindowSizes == {0, 1, 2, DefaultMaxHistorySize}

InitWindow ==
    /\ history = <<>>
    /\ maxHistorySize \in WindowSizes
    /\ panicked = FALSE
    /\ recorded = <<>>
    /\ preHistory = <<>>
    /\ lastState = EmptyState
    /\ lastAnomalies = <<>>
    /\ calls = 0
    /\ ClsIdle
    /\ OrchIdle
    /\ StatsIdle

SpecWindow == InitWindow /\ [][NextDetector]_vars

----------------------------------------------------------------------------
(* Properties of the window a sample is classified against (SpecWindow) *)

\* the cpu window of node i of the last call: what GetMetricHistory returns
\* after the node's two samples were recorded
CpuWindow(i) == GetMetricHistory(NodeHistoryAt(i), "node", lastState.Nodes[i].Name, "cpu")

\* the restart window of pod j of the last call
RestartWindow(j) == GetMetricHistory(PodHistoryAt(j), "pod", lastState.Pods[j].Name, "restarts")

\* the value is the newest element of the window
NewestOf(window, value) == window # <<>> /\ window[Len(window)] = value

\* the last call evicted nothing
NoEviction ==
    Len(preHistory) + 2 * Len(lastState.Nodes) + Len(lastState.Pods) <= maxHistorySize

\* the samples of a resource recorded before the last call
SamplesBefore(resourceType, resourceID, metricType) ==
    GetMetricHistory(preHistory, resourceType, resourceID, metricType)

\* the decision of the statistical checks on the last value of a series
StatisticalDecision(series, threshold) ==
    LET st == ComputeStats(series, alpha)
    IN  isAnomalyHistory(series[Len(series)], st.mean, st.stddev, st.ewma, threshold, minStdDev)

\* an anomaly of the type on the resource whose description names the check
HasAnomalyBy(anomalies, type, resource, basis) ==
    \E k \in 1..Len(anomalies) :
        /\ anomalies[k].Type = type
        /\ anomalies[k].Resource = resource
        /\ anomalies[k].Basis = basis

\* a node or pod seen once per call: without eviction, its k-th call
\* classifies the cpu of a node by the threshold alone for k <= 4 and by the
\* statistical checks on its k samples for k >= 5, and the restarts of a pod
\* by the threshold alone for k <= 2 and statistically for k >= 3
FloorByCallCount ==
    calls > 0 /\ NoEviction =>
        /\ \A i \in 1..Len(lastState.Nodes) :
              LET n == lastState.Nodes[i]
                  series == Append(SamplesBefore("node", n.Name, "cpu"), n.CPUUsagePercent)
              IN  /\ CpuWindow(i) = series
                  /\ Len(series) <= 4 =>
                        /\ HasAnomalyBy(lastAnomalies, "HighCPUUsage", n.Name,
                                        "insufficient history")
                              <=> n.CPUUsagePercent > cpuThreshold
                        /\ ~HasAnomalyBy(lastAnomalies, "HighCPUUsage", n.Name, "statistics")
                  /\ Len(series) >= 5 =>
                        /\ HasAnomalyBy(lastAnomalies, "HighCPUUsage", n.Name, "statistics")
                              <=> StatisticalDecision(series, cpuThreshold)
                        /\ ~HasAnomalyBy(lastAnomalies, "HighCPUUsage", n.Name,
                                         "insufficient history")
        /\ \A j \in 1..Len(lastState.Pods) :
              LET p == lastState.Pods[j]
                  series == Append(SamplesBefore("pod", p.Name, "restarts"), p.RestartCount)
              IN  /\ RestartWindow(j) = series
                  /\ Len(series) <= 2 =>
                        /\ HasAnomalyBy(lastAnomalies, "HighPodRestarts", p.Name,
                                        "insufficient history")
                              <=> p.RestartCount > podRestarts
                        /\ ~HasAnomalyBy(lastAnomalies, "HighPodRestarts", p.Name,
                                         "statistics")
                  /\ Len(series) >= 3 =>
                        /\ HasAnomalyBy(lastAnomalies, "HighPodRestarts", p.Name,
                                        "statistics")
                              <=> StatisticalDecision(series, podRestarts)
                        /\ ~HasAnomalyBy(lastAnomalies, "HighPodRestarts", p.Name,
                                         "insufficient history")

====
